---- MODULE Spec2Model ----
(***************************************************************************)
(* Model of the cytrade trading agent.                                     *)
(*                                                                         *)
(*   SpecWS     WebSocketManager (src/src/services/webSocketManager.js):   *)
(*              transport lifecycle, heartbeat, idle monitor, reconnect,   *)
(*              subscriptions.                                             *)
(*   SpecWSFair SpecWS with weak fairness on the steps the event loop,     *)
(*              the timers and the transport are bound to take.            *)
(*   SpecDelay  the reconnect delay computation of handleReconnect.        *)
(*   SpecBot    TradingBot.handleKline (src/src/services/tradingBot.js)    *)
(*              with its awaited exchange calls as separate steps, so      *)
(*              that invocations interleave as they do on the event loop.  *)
(*   SpecFeed   handleKline as the feed of TechnicalAnalysis: closed       *)
(*              candles and ticks against closingPrices and the EMA        *)
(*              histories.                                                 *)
(*   SpecArc    updateEmaHistory, updateLastEma and checkArcPattern        *)
(*              (src/src/services/technicalAnalysis.js) for EMAs of any    *)
(*              value.                                                     *)
(*   SpecPaced  SpecBot with as many invocations in flight and closed      *)
(*              candles as MaxPending and MaxCandles allow.                *)
(*   SpecStop   SpecPaced next to the exchange's entry price of the        *)
(*              position.                                                  *)
(*   SpecGuard  handleArcPattern up to its first await, for any arguments. *)
(*   SpecSize   the orders of openPosition and closePosition, for any      *)
(*              balance, price, position and instrument rules.             *)
(*   SpecBoot   start() and the backfill of connect(), candle by candle.   *)
(***************************************************************************)
EXTENDS Integers, Sequences, FiniteSets, TLC

(***************************************************************************)
(* Bounds of the model.                                                    *)
(***************************************************************************)
Channels == {"c1", "c2"}
MaxKlines == 3
MaxWatchdogs == 2
MaxDelaySteps == 12
MaxInFlight == 2
MaxClosed == 2
MaxPending == 1
MaxCandles == 1
MinQty == 1
Prices == {1000, 3000, 5000}
Ema5Vals == {2000, 4000}
Ema50Vals == {3000}
HistPrice == 3000
HistoryShort == 10
MaxFeeds == 51
MaxVaried == 4
MaxFeedHistory == 22
MaxArcUpdates == 5
MaxArcTicks == 2
ArcEma5Vals == {3200, 3500, 4500}
GuardHistories == {<<2000, 2000, 2500, 4000, 2500, 2000>>,
                   <<3100, 3100, 3100, 3100, 2000, 2000, 2500, 4000, 2500, 2000>>,
                   <<4000, 4000, 3500, 2000, 3500, 4000>>,
                   <<2900, 2900, 2900, 2900, 4000, 4000, 3500, 2000, 3500, 4000>>}
GuardPrices == {2500, 2900, 3100, 3500}
GuardCrossPrices == {0, 2900, 3100, 3500}
Balances == {0, 100, 1234, 4000}
QuantityPrecisions == {-1, 0, 1, 2, 3}    \* -1: symbolInfo has no quantityPrecision
MinQtys == {1, 100, 1000}                 \* thousandths
PositionAmts == {-3085, -250, 0, 250, 1234}    \* thousandths, short below zero
ArcClosedEma50Vals == {3000}
ArcEma50Vals == {3000, 5000}
BaseDelays == {1000, 2000, 3000, 4000, 5000, 6000, 7000, 8000, 9000, 10000}

(***************************************************************************)
(* Program constants.                                                      *)
(***************************************************************************)
maxReconnectAttempts == 5
reconnectDelay == 5000
MaxDelay == 30000
ema50Period == 50
historyLimit == 100
maxEma5History == 20
maxClosingPrices == 200
minEmaDiff == 1000
maxPriceDiff == 100
maxExtremeDiff == 50
connectLimit == 100  \* klines connect() asks getHistoricalKlines for
positionSize == 5    \* config.trading.positionSize * 100, per cent
leverage == 50
stopLoss == 2           \* config.trading.stopLoss * 100, per cent
takeProfit == 5         \* config.trading.takeProfit * 100, per cent

VARIABLES
    \* ---- WebSocketManager ----
    started,            \* connect() has been called by startWebSocket
    ws,                 \* this.ws: "null" or "ref" (the transport created last)
    readyState,         \* readyState of the transport created last
    pingInterval,       \* this.pingInterval: "null" or "armed"
    pongTimeout,        \* this.pongTimeout: "null", "armed" or "fired" (stale handle)
    watchdogs,          \* live setInterval timers of setupConnectionMonitor
    reconnectAttempts,  \* this.reconnectAttempts
    isReconnecting,     \* this.isReconnecting
    messageAgeOver,     \* Date.now() - this.lastMessageTime > 120000
    subscriptions,      \* this.subscriptions
    fetching,           \* connect() invocations awaiting getHistoricalKlines
    backoff,            \* handleReconnect invocations awaiting their delay
    delay,              \* delay computed by the last handleReconnect
    failed,             \* handleReconnect took its max-attempts branch
    proc,               \* "running" or "exited" (process.exit / uncaught exception)
    closeCalled,        \* close() has been called
    sent,               \* frames handed to the transport by the last step
    delivered,          \* messages handed to onMessage by the last step
    klines,             \* open times of the klines getHistoricalKlines returned to it
    frame,              \* kind of the frame the 'message' handler got in this step
    fired,              \* the timer whose callback ran in this step
    lastCall,           \* the last public call and its argument
    \* ---- reconnect delay as a function ----
    dAttempt, dBase, dRaw, dDelay,
    \* ---- TechnicalAnalysis ----
    closingPrices,      \* this.closingPrices
    ema5History,        \* this.ema5History
    ema50History,       \* this.ema50History
    previousEma5,       \* this.previousEma5 (0: null)
    previousEma50,      \* this.previousEma50 (0: null)
    base5,              \* EMA5 of the committed closingPrices (0: undefined)
    \* ---- TradingBot ----
    bootstrapped,       \* initializeHistoricalData has run
    lastArcPattern,     \* this.lastArcPattern
    lastCrossSignal,    \* this.lastCrossSignal
    crossPrice,         \* this.crossPrice (0: null)
    allowAddOrder,      \* this.allowAddOrder
    inv,                \* the handleKline invocations in flight
    \* ---- exchange ----
    positionAmt,        \* positionAmt of the symbol, signed
    \* ---- observation ----
    closedTicks,        \* closed candles handled so far
    edgeSign,           \* sign of ema5 - ema50 at the last tick (2: none yet)
    curEdge,            \* invocations whose tick came after the last sign change
    crossOpens,         \* crossover open orders sent by them
    opensSinceClose,    \* open orders filled since the last filled close
    posRead,            \* what getCurrentPosition returned in this step
                        \* ("error": it, or the call after it, threw)
    sink,               \* how the POST of the sendSignal that ended in this step went
    \* ---- handleKline as the feed of TechnicalAnalysis ----
    fed,                \* candle events handled so far
    fedKind,            \* the last one: "none", "closed" or "tick"
    fedPrice,           \* its close price
    fedEma5,            \* the EMA5 calculateEMAs returned for it (0: null)
    fedEma50,           \* the EMA50 calculateEMAs returned for it (0: null)
    \* ---- the EMA histories under updateEmaHistory / updateLastEma ----
    arcN,               \* updateEmaHistory calls so far
    arcTicks,           \* updateLastEma calls so far
    arcOp,              \* the last step: "none", "closed", "tick" or "check"
    arcPend,            \* EMAs of the tick between updateLastEma and checkArcPattern
    arcCur,             \* EMAs the last checkArcPattern was called with
    arcResult,          \* what it returned: "null", "TOP" or "BOTTOM"
    arcUpdates,         \* EMA pairs of the last closed-candle updates, oldest first
    \* ---- the exchange's view of the position, for its unrealized PnL ----
    entryPrice,         \* entryPrice of the position (0: none)
    tickPrice,          \* close price of the tick handled in this step (0: none)
    \* ---- openPosition on its own, quantities in thousandths ----
    openCall,           \* the call: its position, what its awaits returned, its order
    \* ---- the candles behind closingPrices ----
    committed           \* per candle, how many times addPrice was called with its close

wsVars == <<started, ws, readyState, pingInterval, pongTimeout, watchdogs,
            reconnectAttempts, isReconnecting, messageAgeOver, subscriptions,
            fetching, backoff, delay, failed, proc, closeCalled, sent,
            delivered, klines, frame, fired, lastCall>>

delayVars == <<dAttempt, dBase, dRaw, dDelay>>

taVars == <<closingPrices, ema5History, ema50History, previousEma5,
            previousEma50, base5>>

botVars == <<taVars, bootstrapped, lastArcPattern, lastCrossSignal, crossPrice,
             allowAddOrder, inv, positionAmt, closedTicks, edgeSign, curEdge,
             crossOpens, opensSinceClose, posRead, sink>>

feedVars == <<fed, fedKind, fedPrice, fedEma5, fedEma50>>

arcVars == <<arcN, arcTicks, arcOp, arcPend, arcCur, arcResult, arcUpdates>>

exVars == <<entryPrice, tickPrice>>

obsVars == <<feedVars, arcVars, exVars, openCall, committed>>

vars == <<wsVars, delayVars, botVars, obsVars>>

Min(a, b) == IF a < b THEN a ELSE b

RECURSIVE Pow2(_)
Pow2(n) == IF n <= 0 THEN 1 ELSE 2 * Pow2(n - 1)

NoCall == [op |-> "none", channel |-> "none"]

(***************************************************************************)
(* handleReconnect, lines 230-233: Math.min(reconnectDelay * 2^(a-1), 30000)*)
(***************************************************************************)
ReconnectDelayNoCap(attempts, base) == base * Pow2(attempts - 1)

ReconnectDelay(attempts, base) == Min(base * Pow2(attempts - 1), MaxDelay)

(***************************************************************************)
(* resubscribe: one SUBSCRIBE frame carrying the whole set, none if empty. *)
(***************************************************************************)
ResubscribeEach(subs) ==
    IF subs = {} THEN << >>
    ELSE LET c == CHOOSE x \in subs : TRUE
         IN <<[method |-> "SUBSCRIBE", params |-> {c}]>>

Resubscribe(subs) ==
    IF subs # {} THEN <<[method |-> "SUBSCRIBE", params |-> subs]>> ELSE << >>

(***************************************************************************)
(* handleOpen, line 102: this.reconnectAttempts = 0.                       *)
(***************************************************************************)
AttemptsAfterOpenKept(attempts) == attempts

AttemptsAfterOpen(attempts) == 0

(***************************************************************************)
(* cleanup: clears the two heartbeat timers the manager keeps handles of.  *)
(***************************************************************************)
Cleanup ==
    /\ pingInterval' = "null"
    /\ pongTimeout' = "null"

(***************************************************************************)
(* handleReconnect up to its await (or to its end).                        *)
(***************************************************************************)
HandleReconnectUnguarded ==
    IF reconnectAttempts < maxReconnectAttempts
    THEN /\ isReconnecting' = TRUE
         /\ reconnectAttempts' = reconnectAttempts + 1
         /\ delay' = ReconnectDelay(reconnectAttempts + 1, reconnectDelay)
         /\ backoff' = backoff + 1
         /\ UNCHANGED <<failed, proc>>
    ELSE /\ isReconnecting' = FALSE
         /\ failed' = TRUE
         /\ proc' = "exited"
         /\ UNCHANGED <<reconnectAttempts, backoff, delay>>

HandleReconnect ==
    IF isReconnecting
    THEN UNCHANGED <<isReconnecting, reconnectAttempts, backoff, delay, failed, proc>>
    ELSE IF reconnectAttempts < maxReconnectAttempts
         THEN /\ isReconnecting' = TRUE
              /\ reconnectAttempts' = reconnectAttempts + 1
              /\ delay' = ReconnectDelay(reconnectAttempts + 1, reconnectDelay)
              /\ backoff' = backoff + 1
              /\ UNCHANGED <<failed, proc>>
         ELSE /\ isReconnecting' = FALSE
              /\ failed' = TRUE
              /\ proc' = "exited"
              /\ UNCHANGED <<reconnectAttempts, backoff, delay>>

(***************************************************************************)
(* An exception nobody catches reaches the uncaughtException handler of    *)
(* logger.js, which ends the process.                                      *)
(***************************************************************************)
Uncaught == proc' = "exited"

Running == proc = "running"

(***************************************************************************)
(* The connection phase of the specification, read off the manager's       *)
(* fields.                                                                 *)
(***************************************************************************)
Phase ==
    IF failed THEN "Failed"
    ELSE IF readyState = "OPEN" THEN "Connected"
    ELSE IF readyState = "CONNECTING" \/ fetching > 0 THEN "Connecting"
    ELSE IF isReconnecting THEN "Reconnecting"
    ELSE "Disconnected"

InitWS ==
    /\ started = FALSE
    /\ ws = "null"
    /\ readyState = "NONE"
    /\ pingInterval = "null"
    /\ pongTimeout = "null"
    /\ watchdogs = 0
    /\ reconnectAttempts = 0
    /\ isReconnecting = FALSE
    /\ messageAgeOver = FALSE
    /\ subscriptions = {}
    /\ fetching = 0
    /\ backoff = 0
    /\ delay = 0
    /\ failed = FALSE
    /\ proc = "running"
    /\ closeCalled = FALSE
    /\ sent = << >>
    /\ delivered = << >>
    /\ klines = << >>
    /\ frame = "none"
    /\ fired = "none"
    /\ lastCall = NoCall

InitDelay ==
    /\ dAttempt = 0
    /\ dBase = reconnectDelay
    /\ dRaw = 0
    /\ dDelay = 0

Slots == 1..MaxInFlight

IdleInv ==
    [pc |-> "idle", price |-> 0, ema5 |-> 0, ema50 |-> 0, cross |-> "none",
     caller |-> "none", pattern |-> "null",
     dir |-> "none", qty |-> 0]

InitBot ==
    /\ closingPrices = << >>
    /\ ema5History = << >>
    /\ ema50History = << >>
    /\ previousEma5 = 0
    /\ previousEma50 = 0
    /\ base5 = 0
    /\ bootstrapped = FALSE
    /\ lastArcPattern = "null"
    /\ lastCrossSignal = "null"
    /\ crossPrice = 0
    /\ allowAddOrder = [long |-> FALSE, short |-> FALSE]
    /\ inv = [t \in Slots |-> IdleInv]
    /\ positionAmt = 0
    /\ closedTicks = 0
    /\ edgeSign = 2
    /\ curEdge = {}
    /\ crossOpens = 0
    /\ opensSinceClose = 0
    /\ posRead = "none"
    /\ sink = "none"

NoEmas == [e5 |-> 0, e50 |-> 0]

InitFeed ==
    /\ fed = 0
    /\ fedKind = "none"
    /\ fedPrice = 0
    /\ fedEma5 = 0
    /\ fedEma50 = 0

InitArc ==
    /\ arcN = 0
    /\ arcTicks = 0
    /\ arcOp = "none"
    /\ arcPend = NoEmas
    /\ arcCur = NoEmas
    /\ arcResult = "null"
    /\ arcUpdates = << >>

(***************************************************************************)
(* Candles are numbered by open time; the candle that is open during the   *)
(* session is the last one.  A fetch of n klines returns the n last ones.  *)
(***************************************************************************)
CandleIds == 1..historyLimit

FetchedKlines(n) == [i \in 1..n |-> historyLimit - n + i]

NoOpenCall ==
    [pc |-> "idle", price |-> 0, availableBalance |-> 0, positionAmt |-> 0,
     direction |-> "none", quantityPrecision |-> 0, minQty |-> 0,
     roundedQuantity |-> 0, order |-> 0, side |-> "none", reduceOnly |-> FALSE]

InitEx ==
    /\ entryPrice = 0
    /\ tickPrice = 0
    /\ openCall = NoOpenCall
    /\ committed = [c \in CandleIds |-> 0]

Init == InitWS /\ InitDelay /\ InitBot /\ InitFeed /\ InitArc /\ InitEx

(***************************************************************************)
(* startWebSocket: the one call of connect() from outside the manager.     *)
(***************************************************************************)
Connect ==
    /\ Running /\ ~started
    /\ started' = TRUE
    /\ fetching' = fetching + 1
    /\ sent' = << >> /\ delivered' = << >> /\ klines' = << >> /\ frame' = "none" /\ fired' = "none" /\ lastCall' = NoCall
    /\ UNCHANGED <<ws, readyState, pingInterval, pongTimeout, watchdogs,
                   reconnectAttempts, isReconnecting, messageAgeOver,
                   subscriptions, backoff, delay, failed, proc, closeCalled>>

(***************************************************************************)
(* connect() after getHistoricalKlines returned n klines: every kline but  *)
(* the last goes to onMessage as a closed candle, then the transport is    *)
(* created, setupHeartbeat (cleanup, new ping interval) and                *)
(* setupConnectionMonitor (one more interval, its handle dropped) run.     *)
(***************************************************************************)
ClosedKlinesAll(n) ==
    [i \in 1..n |-> [e |-> "kline", t |-> i, x |-> TRUE]]

ClosedKlines(n) ==
    [i \in 1..(IF n > 0 THEN n - 1 ELSE 0) |-> [e |-> "kline", t |-> i, x |-> TRUE]]

ConnectFetched ==
    /\ Running /\ fetching > 0
    /\ \E n \in 0..MaxKlines :
          /\ klines' = [i \in 1..n |-> i]
          /\ frame' = "none" /\ fired' = "none"
          /\ delivered' = ClosedKlines(n)
    /\ fetching' = fetching - 1
    /\ ws' = "ref"
    /\ readyState' = "CONNECTING"
    /\ pingInterval' = "armed"
    /\ pongTimeout' = "null"
    /\ watchdogs' = Min(watchdogs + 1, MaxWatchdogs)
    /\ sent' = << >> /\ lastCall' = NoCall
    /\ UNCHANGED <<started, reconnectAttempts, isReconnecting, messageAgeOver,
                   subscriptions, backoff, delay, failed, proc, closeCalled>>

(***************************************************************************)
(* connect() when getHistoricalKlines throws: catch, handleReconnect().    *)
(***************************************************************************)
ConnectFetchFailed ==
    /\ Running /\ fetching > 0
    /\ fetching' = fetching - 1
    /\ HandleReconnect
    /\ sent' = << >> /\ delivered' = << >> /\ klines' = << >> /\ frame' = "none" /\ fired' = "none" /\ lastCall' = NoCall
    /\ UNCHANGED <<started, ws, readyState, pingInterval, pongTimeout,
                   watchdogs, messageAgeOver, subscriptions, closeCalled>>

(***************************************************************************)
(* The delay of handleReconnect elapses: this.connect().                   *)
(***************************************************************************)
BackoffElapsed ==
    /\ Running /\ backoff > 0
    /\ backoff' = backoff - 1
    /\ fetching' = fetching + 1
    /\ sent' = << >> /\ delivered' = << >> /\ klines' = << >> /\ frame' = "none" /\ fired' = "backoff" /\ lastCall' = NoCall
    /\ UNCHANGED <<started, ws, readyState, pingInterval, pongTimeout,
                   watchdogs, reconnectAttempts, isReconnecting,
                   messageAgeOver, subscriptions, delay, failed, proc,
                   closeCalled>>

(***************************************************************************)
(* 'open': handleOpen, then resubscribe.                                   *)
(***************************************************************************)
TransportOpen ==
    /\ Running /\ readyState = "CONNECTING"
    /\ readyState' = "OPEN"
    /\ reconnectAttempts' = AttemptsAfterOpen(reconnectAttempts)
    /\ isReconnecting' = FALSE
    /\ messageAgeOver' = FALSE
    /\ IF subscriptions # {} /\ ws = "null"
       THEN Uncaught /\ sent' = << >>
       ELSE sent' = Resubscribe(subscriptions) /\ UNCHANGED proc
    /\ delivered' = << >> /\ klines' = << >> /\ frame' = "none" /\ fired' = "none" /\ lastCall' = NoCall
    /\ UNCHANGED <<started, ws, pingInterval, pongTimeout, watchdogs,
                   subscriptions, fetching, backoff, delay, failed,
                   closeCalled>>

(***************************************************************************)
(* 'close': handleClose: cleanup, then handleReconnect unless one is       *)
(* already marked as running.                                              *)
(***************************************************************************)
TransportClose ==
    /\ Running /\ readyState \in {"CONNECTING", "OPEN", "CLOSING"}
    /\ readyState' = "CLOSED"
    /\ Cleanup
    /\ IF ~isReconnecting
       THEN HandleReconnect
       ELSE UNCHANGED <<isReconnecting, reconnectAttempts, backoff, delay, failed, proc>>
    /\ sent' = << >> /\ delivered' = << >> /\ klines' = << >> /\ frame' = "none" /\ fired' = "none" /\ lastCall' = NoCall
    /\ UNCHANGED <<started, ws, watchdogs, messageAgeOver, subscriptions,
                   fetching, closeCalled>>

(***************************************************************************)
(* 'error': handleError: cleanup, this.ws.close().                         *)
(***************************************************************************)
TransportError ==
    /\ Running /\ readyState \in {"CONNECTING", "OPEN", "CLOSING"}
    /\ Cleanup
    /\ IF ws = "null"
       THEN Uncaught /\ UNCHANGED readyState
       ELSE readyState' = "CLOSING" /\ UNCHANGED proc
    /\ sent' = << >> /\ delivered' = << >> /\ klines' = << >> /\ frame' = "none" /\ fired' = "none" /\ lastCall' = NoCall
    /\ UNCHANGED <<started, ws, watchdogs, reconnectAttempts, isReconnecting,
                   messageAgeOver, subscriptions, fetching, backoff, delay,
                   failed, closeCalled>>

(***************************************************************************)
(* handlePing: answers with a pong while the transport is open.            *)
(***************************************************************************)
HandlePing ==
    IF ws = "null"
    THEN Uncaught /\ sent' = << >>
    ELSE /\ sent' = IF readyState = "OPEN"
                    THEN <<[method |-> "pong", params |-> {}]>> ELSE << >>
         /\ UNCHANGED proc

(***************************************************************************)
(* handlePong: disarms the pong timeout the manager holds.                 *)
(***************************************************************************)
HandlePong == pongTimeout' = "null"

(***************************************************************************)
(* handleMessage, lines 131-136: JSON.parse threw; the catch logs the      *)
(* frame and returns.                                                      *)
(***************************************************************************)
HandleMessageParseErrorRethrown ==
    /\ sent' = << >> /\ delivered' = << >>
    /\ Uncaught

HandleMessageParseError ==
    /\ sent' = << >> /\ delivered' = << >>
    /\ UNCHANGED proc

(***************************************************************************)
(* 'message': the text "ping" goes to handlePing, everything else to       *)
(* handleMessage (JSON.parse, lastMessageTime, pong / result / onMessage). *)
(***************************************************************************)
MessageKinds == {"pingText", "pong", "result", "kline", "malformed"}

TransportMessage ==
    /\ Running /\ readyState \in {"OPEN", "CLOSING"}
    /\ \E kind \in MessageKinds, x \in BOOLEAN :
       /\ frame' = kind /\ fired' = "none"
       /\ CASE kind = "pingText" ->
                   /\ HandlePing
                   /\ delivered' = << >> /\ klines' = << >>
                   /\ UNCHANGED <<messageAgeOver, pongTimeout>>
              [] kind = "pong" ->
                   /\ messageAgeOver' = FALSE
                   /\ HandlePong
                   /\ sent' = << >> /\ delivered' = << >> /\ klines' = << >>
                   /\ UNCHANGED proc
              [] kind = "result" ->
                   /\ messageAgeOver' = FALSE
                   /\ sent' = << >> /\ delivered' = << >> /\ klines' = << >>
                   /\ UNCHANGED <<proc, pongTimeout>>
              [] kind = "kline" ->
                   /\ messageAgeOver' = FALSE
                   /\ delivered' = <<[e |-> "kline", t |-> 0, x |-> x]>>
                   /\ klines' = << >>
                   /\ sent' = << >>
                   /\ UNCHANGED <<proc, pongTimeout>>
              [] kind = "malformed" ->
                   /\ HandleMessageParseError
                   /\ klines' = << >>
                   /\ UNCHANGED <<pongTimeout, messageAgeOver>>
    /\ lastCall' = NoCall
    /\ UNCHANGED <<started, ws, readyState, pingInterval, watchdogs,
                   reconnectAttempts, isReconnecting, subscriptions,
                   fetching, backoff, delay, failed, closeCalled>>

(***************************************************************************)
(* 'ping' and 'pong' control frames.                                       *)
(***************************************************************************)
TransportPing ==
    /\ Running /\ readyState \in {"OPEN", "CLOSING"}
    /\ HandlePing
    /\ delivered' = << >> /\ klines' = << >> /\ frame' = "none" /\ fired' = "none" /\ lastCall' = NoCall
    /\ UNCHANGED <<started, ws, readyState, pingInterval, pongTimeout,
                   watchdogs, reconnectAttempts, isReconnecting,
                   messageAgeOver, subscriptions, fetching, backoff, delay,
                   failed, closeCalled>>

TransportPong ==
    /\ Running /\ readyState \in {"OPEN", "CLOSING"}
    /\ HandlePong
    /\ sent' = << >> /\ delivered' = << >> /\ klines' = << >> /\ frame' = "none" /\ fired' = "none" /\ lastCall' = NoCall
    /\ UNCHANGED <<started, ws, readyState, pingInterval, watchdogs,
                   reconnectAttempts, isReconnecting, messageAgeOver,
                   subscriptions, fetching, backoff, delay, failed, proc,
                   closeCalled>>

(***************************************************************************)
(* The ping interval of setupHeartbeat fires.  pongTimeout (5000) is       *)
(* shorter than pingInterval (30000): a timeout armed by the previous ping *)
(* has fired or has been cleared by now.                                   *)
(***************************************************************************)
PingIntervalFire ==
    /\ Running /\ pingInterval = "armed" /\ pongTimeout # "armed"
    /\ IF ws = "null"
       THEN Uncaught /\ sent' = << >> /\ UNCHANGED pongTimeout
       ELSE IF readyState = "OPEN"
            THEN /\ sent' = <<[method |-> "ping", params |-> {}]>>
                 /\ pongTimeout' = "armed"
                 /\ UNCHANGED proc
            ELSE sent' = << >> /\ UNCHANGED <<pongTimeout, proc>>
    /\ delivered' = << >> /\ klines' = << >> /\ frame' = "none" /\ fired' = "ping" /\ lastCall' = NoCall
    /\ UNCHANGED <<started, ws, readyState, pingInterval, watchdogs,
                   reconnectAttempts, isReconnecting, messageAgeOver,
                   subscriptions, fetching, backoff, delay, failed,
                   closeCalled>>

(***************************************************************************)
(* terminate() of the transport: the 'close' event follows.                *)
(***************************************************************************)
TerminatedIgnored(state) == state

Terminated(state) ==
    IF state \in {"OPEN", "CONNECTING"} THEN "CLOSING" ELSE state

(***************************************************************************)
(* The pong timeout fires: this.ws.terminate().  The handle stays in       *)
(* this.pongTimeout until cleanup or handlePong clears it.                 *)
(***************************************************************************)
PongTimeoutFire ==
    /\ Running /\ pongTimeout = "armed"
    /\ pongTimeout' = "fired"
    /\ IF ws = "null"
       THEN Uncaught /\ UNCHANGED readyState
       ELSE readyState' = Terminated(readyState) /\ UNCHANGED proc
    /\ sent' = << >> /\ delivered' = << >> /\ klines' = << >> /\ frame' = "none" /\ fired' = "pong" /\ lastCall' = NoCall
    /\ UNCHANGED <<started, ws, pingInterval, watchdogs, reconnectAttempts,
                   isReconnecting, messageAgeOver, subscriptions, fetching,
                   backoff, delay, failed, closeCalled>>

(***************************************************************************)
(* setupConnectionMonitor, line 203, once messageAge is over 120000: the   *)
(* transport is terminated if it reports OPEN.                             *)
(***************************************************************************)
MonitorTerminatesNever(state) == FALSE

MonitorTerminates(state) == state = "OPEN"

(***************************************************************************)
(* An interval of setupConnectionMonitor fires.                            *)
(***************************************************************************)
WatchdogFire ==
    /\ Running /\ watchdogs > 0
    /\ IF messageAgeOver
       THEN IF ws = "null"
            THEN Uncaught /\ UNCHANGED readyState
            ELSE /\ readyState' = IF MonitorTerminates(readyState)
                                  THEN "CLOSING" ELSE readyState
                 /\ UNCHANGED proc
       ELSE UNCHANGED <<readyState, proc>>
    /\ sent' = << >> /\ delivered' = << >> /\ klines' = << >> /\ frame' = "none" /\ fired' = "watchdog" /\ lastCall' = NoCall
    /\ UNCHANGED <<started, ws, pingInterval, pongTimeout, watchdogs,
                   reconnectAttempts, isReconnecting, messageAgeOver,
                   subscriptions, fetching, backoff, delay, failed,
                   closeCalled>>

(***************************************************************************)
(* More than 120000 ms pass without a message.                             *)
(***************************************************************************)
TimePasses ==
    /\ Running /\ ~messageAgeOver
    /\ messageAgeOver' = TRUE
    /\ sent' = << >> /\ delivered' = << >> /\ klines' = << >> /\ frame' = "none" /\ fired' = "none" /\ lastCall' = NoCall
    /\ UNCHANGED <<started, ws, readyState, pingInterval, pongTimeout,
                   watchdogs, reconnectAttempts, isReconnecting,
                   subscriptions, fetching, backoff, delay, failed, proc,
                   closeCalled>>

(***************************************************************************)
(* subscribe(channel) / unsubscribe(channel): everything happens inside    *)
(* `if (this.ws.readyState === WebSocket.OPEN)`; with this.ws null the     *)
(* test throws to the caller.                                              *)
(***************************************************************************)
SubscribeBody(channel) ==
    IF ws # "null" /\ readyState = "OPEN"
    THEN /\ sent' = <<[method |-> "SUBSCRIBE", params |-> {channel}]>>
         /\ subscriptions' = subscriptions \cup {channel}
    ELSE sent' = << >> /\ UNCHANGED subscriptions

UnsubscribeBody(channel) ==
    IF ws # "null" /\ readyState = "OPEN"
    THEN /\ sent' = <<[method |-> "UNSUBSCRIBE", params |-> {channel}]>>
         /\ subscriptions' = subscriptions \ {channel}
    ELSE sent' = << >> /\ UNCHANGED subscriptions

Subscribe ==
    /\ Running
    /\ \E channel \in Channels :
         /\ SubscribeBody(channel)
         /\ lastCall' = [op |-> "subscribe", channel |-> channel]
    /\ delivered' = << >> /\ klines' = << >> /\ frame' = "none" /\ fired' = "none"
    /\ UNCHANGED <<started, ws, readyState, pingInterval, pongTimeout,
                   watchdogs, reconnectAttempts, isReconnecting,
                   messageAgeOver, fetching, backoff, delay, failed, proc,
                   closeCalled>>

Unsubscribe ==
    /\ Running
    /\ \E channel \in Channels :
         /\ UnsubscribeBody(channel)
         /\ lastCall' = [op |-> "unsubscribe", channel |-> channel]
    /\ delivered' = << >> /\ klines' = << >> /\ frame' = "none" /\ fired' = "none"
    /\ UNCHANGED <<started, ws, readyState, pingInterval, pongTimeout,
                   watchdogs, reconnectAttempts, isReconnecting,
                   messageAgeOver, fetching, backoff, delay, failed, proc,
                   closeCalled>>

(***************************************************************************)
(* close(): cleanup, this.ws.close(), this.ws = null.                      *)
(***************************************************************************)
Close ==
    /\ Running
    /\ Cleanup
    /\ readyState' = IF ws # "null" THEN Terminated(readyState) ELSE readyState
    /\ ws' = "null"
    /\ closeCalled' = TRUE
    /\ sent' = << >> /\ delivered' = << >> /\ klines' = << >> /\ frame' = "none" /\ fired' = "none"
    /\ lastCall' = [op |-> "close", channel |-> "none"]
    /\ UNCHANGED <<started, watchdogs, reconnectAttempts, isReconnecting,
                   messageAgeOver, subscriptions, fetching, backoff, delay,
                   failed, proc>>

NextWS ==
    \/ (Connect /\ UNCHANGED <<delayVars, botVars, obsVars>>)
    \/ (ConnectFetched /\ UNCHANGED <<delayVars, botVars, obsVars>>)
    \/ (ConnectFetchFailed /\ UNCHANGED <<delayVars, botVars, obsVars>>)
    \/ (BackoffElapsed /\ UNCHANGED <<delayVars, botVars, obsVars>>)
    \/ (TransportOpen /\ UNCHANGED <<delayVars, botVars, obsVars>>)
    \/ (TransportClose /\ UNCHANGED <<delayVars, botVars, obsVars>>)
    \/ (TransportError /\ UNCHANGED <<delayVars, botVars, obsVars>>)
    \/ (TransportMessage /\ UNCHANGED <<delayVars, botVars, obsVars>>)
    \/ (TransportPing /\ UNCHANGED <<delayVars, botVars, obsVars>>)
    \/ (TransportPong /\ UNCHANGED <<delayVars, botVars, obsVars>>)
    \/ (PingIntervalFire /\ UNCHANGED <<delayVars, botVars, obsVars>>)
    \/ (PongTimeoutFire /\ UNCHANGED <<delayVars, botVars, obsVars>>)
    \/ (WatchdogFire /\ UNCHANGED <<delayVars, botVars, obsVars>>)
    \/ (TimePasses /\ UNCHANGED <<delayVars, botVars, obsVars>>)
    \/ (Subscribe /\ UNCHANGED <<delayVars, botVars, obsVars>>)
    \/ (Unsubscribe /\ UNCHANGED <<delayVars, botVars, obsVars>>)
    \/ (Close /\ UNCHANGED <<delayVars, botVars, obsVars>>)

SpecWS == Init /\ [][NextWS]_vars

(***************************************************************************)
(* Fairness: startWebSocket calls connect(); a REST call returns or        *)
(* throws; an armed timeout fires; a transport that is connecting or       *)
(* closing ends up open or closed.                                         *)
(***************************************************************************)
TransportSettles ==
    /\ readyState \in {"CONNECTING", "CLOSING"}
    /\ (TransportOpen \/ TransportClose)

SpecWSFair ==
    /\ Init /\ [][NextWS]_vars
    /\ WF_vars(Connect /\ UNCHANGED <<delayVars, botVars, obsVars>>)
    /\ WF_vars((ConnectFetched \/ ConnectFetchFailed) /\ UNCHANGED <<delayVars, botVars, obsVars>>)
    /\ WF_vars(BackoffElapsed /\ UNCHANGED <<delayVars, botVars, obsVars>>)
    /\ WF_vars(PongTimeoutFire /\ UNCHANGED <<delayVars, botVars, obsVars>>)
    /\ WF_vars(TransportSettles /\ UNCHANGED <<delayVars, botVars, obsVars>>)

(***************************************************************************)
(* The delay computation on its own: the delays of attempts 1, 2, ... for  *)
(* a base delay, next to the doubling it is meant to follow.               *)
(***************************************************************************)
DelayFirst ==
    /\ dAttempt = 0
    /\ \E base \in BaseDelays :
         /\ dBase' = base
         /\ dRaw' = base
         /\ dDelay' = ReconnectDelay(1, base)
    /\ dAttempt' = 1
    /\ UNCHANGED <<wsVars, botVars, obsVars>>

DelayNext ==
    /\ dAttempt >= 1 /\ dAttempt < MaxDelaySteps
    /\ dAttempt' = dAttempt + 1
    /\ dRaw' = 2 * dRaw
    /\ dDelay' = ReconnectDelay(dAttempt + 1, dBase)
    /\ UNCHANGED <<dBase, wsVars, botVars, obsVars>>

NextDelay == DelayFirst \/ DelayNext

SpecDelay == Init /\ [][NextDelay]_vars

(***************************************************************************)
(*                         TechnicalAnalysis                               *)
(***************************************************************************)
Max(a, b) == IF a > b THEN a ELSE b

Abs(x) == IF x < 0 THEN -x ELSE x

Sign(x) == IF x > 0 THEN 1 ELSE IF x < 0 THEN -1 ELSE 0

(***************************************************************************)
(* addPrice: push, shift when over maxClosingPrices.                       *)
(***************************************************************************)
AddPrice(prices, price) ==
    LET a == Append(prices, price)
    IN IF Len(a) > maxClosingPrices THEN Tail(a) ELSE a

(***************************************************************************)
(* updateEmaHistory: the value is pushed twice, then one shift when the    *)
(* history is over maxEma5History.                                         *)
(***************************************************************************)
UpdateEmaHistory(history, ema) ==
    LET a == Append(Append(history, ema), ema)
    IN IF Len(a) > maxEma5History THEN Tail(a) ELSE a

(***************************************************************************)
(* updateLastEma: overwrites the last entries when both histories have one.*)
(***************************************************************************)
UpdateLastEmaPushed(history, other, ema) == Append(history, ema)

UpdateLastEma(history, other, ema) ==
    IF Len(history) > 0 /\ Len(other) > 0
    THEN [history EXCEPT ![Len(history)] = ema]
    ELSE history

(***************************************************************************)
(* calculateEMAs: <<0, 0>> (null, null) while closingPrices plus the       *)
(* current price are fewer than ema50Period values.  Otherwise the values  *)
(* come from EMA.calculate of the technicalindicators package: the EMA of  *)
(* prices + [price] lies between price and the EMA of prices (base), and   *)
(* the slow EMA stays at its level within the few candles of a run.        *)
(***************************************************************************)
CalculateEMAsUnguarded(prices, price, base) ==
    {<<e5, e50>> :
       e5 \in {v \in Ema5Vals :
                 base = 0 \/ (Min(price, base) <= v /\ v <= Max(price, base))},
       e50 \in Ema50Vals}

CalculateEMAs(prices, price, base) ==
    IF Len(prices) + 1 < ema50Period
    THEN {<<0, 0>>}
    ELSE {<<e5, e50>> :
            e5 \in {v \in Ema5Vals :
                      base = 0 \/ (Min(price, base) <= v /\ v <= Max(price, base))},
            e50 \in Ema50Vals}

(***************************************************************************)
(* checkArcPattern.                                                        *)
(***************************************************************************)
CheckArcPatternTies(h5, h50, currentEma5, currentEma50) ==
    IF Len(h5) < 5 \/ Len(h50) < 5
    THEN "null"
    ELSE LET l5 == SubSeq(h5, Len(h5) - 4, Len(h5))
             l50 == SubSeq(h50, Len(h50) - 4, Len(h50))
             tooSmall == Abs(l5[3] - l50[3]) < minEmaDiff
         IN IF /\ l5[3] >= l5[1] /\ l5[3] >= l5[2]
               /\ l5[3] >= l5[4] /\ l5[3] >= l5[5]
               /\ currentEma5 > currentEma50
            THEN IF tooSmall THEN "null" ELSE "TOP"
            ELSE IF /\ l5[3] <= l5[1] /\ l5[3] <= l5[2]
                    /\ l5[3] <= l5[4] /\ l5[3] <= l5[5]
                    /\ currentEma5 < currentEma50
                 THEN IF tooSmall THEN "null" ELSE "BOTTOM"
                 ELSE "null"

CheckArcPatternNoGate(h5, h50, currentEma5, currentEma50) ==
    IF Len(h5) < 5 \/ Len(h50) < 5
    THEN "null"
    ELSE LET l5 == SubSeq(h5, Len(h5) - 4, Len(h5))
         IN IF /\ l5[3] > l5[1] /\ l5[3] > l5[2]
               /\ l5[3] > l5[4] /\ l5[3] > l5[5]
               /\ currentEma5 > currentEma50
            THEN "TOP"
            ELSE IF /\ l5[3] < l5[1] /\ l5[3] < l5[2]
                    /\ l5[3] < l5[4] /\ l5[3] < l5[5]
                    /\ currentEma5 < currentEma50
                 THEN "BOTTOM"
                 ELSE "null"

CheckArcPattern(h5, h50, currentEma5, currentEma50) ==
    IF Len(h5) < 5 \/ Len(h50) < 5
    THEN "null"
    ELSE LET l5 == SubSeq(h5, Len(h5) - 4, Len(h5))
             l50 == SubSeq(h50, Len(h50) - 4, Len(h50))
             middleEma5 == l5[3]
             middleEma50 == l50[3]
             tooSmall == Abs(middleEma5 - middleEma50) < minEmaDiff
         IN IF /\ middleEma5 > l5[1] /\ middleEma5 > l5[2]
               /\ middleEma5 > l5[4] /\ middleEma5 > l5[5]
               /\ currentEma5 > currentEma50
            THEN IF tooSmall THEN "null" ELSE "TOP"
            ELSE IF /\ middleEma5 < l5[1] /\ middleEma5 < l5[2]
                    /\ middleEma5 < l5[4] /\ middleEma5 < l5[5]
                    /\ currentEma5 < currentEma50
                 THEN IF tooSmall THEN "null" ELSE "BOTTOM"
                 ELSE "null"

(***************************************************************************)
(*                              TradingBot                                 *)
(***************************************************************************)
PositionType(amt) == IF amt > 0 THEN "long" ELSE IF amt < 0 THEN "short" ELSE "null"

(***************************************************************************)
(* handleArcPattern, lines 261-262: element 1 of the whole ema5History     *)
(* sorted descending for TOP, ascending for BOTTOM.                        *)
(***************************************************************************)
SecondExtreme(history, pattern) ==
    LET R == {history[i] : i \in DOMAIN history}
        Ext(S) == IF pattern = "TOP"
                  THEN CHOOSE v \in S : \A w \in S : w <= v
                  ELSE CHOOSE v \in S : \A w \in S : w >= v
        first == Ext(R)
    IN IF Cardinality({i \in DOMAIN history : history[i] = first}) >= 2
       THEN first
       ELSE Ext(R \ {first})

(***************************************************************************)
(* handleArcPattern, lines 241-273: the returns taken before any await.    *)
(***************************************************************************)
ArcStale(pattern, r, h5, cp) ==
    LET hasBreakout == IF pattern = "TOP" THEN r.ema5 < r.ema50 ELSE r.ema5 > r.ema50
    IN /\ hasBreakout
       /\ \/ cp = 0
          \/ Abs(r.price - cp) > maxPriceDiff
          \/ Abs(r.price - SecondExtreme(h5, pattern)) > maxExtremeDiff

(***************************************************************************)
(* handleKline, lines 144-149, for invocation t once checkTradeSignals has *)
(* returned: checkArcPattern on the histories as they are now, and         *)
(* handleArcPattern up to its getCurrentPosition.                          *)
(***************************************************************************)
ArcContinue(t, r) ==
    LET pattern == CheckArcPattern(ema5History', ema50History', r.ema5, r.ema50)
    IN IF pattern # "null" /\ pattern # lastArcPattern
       THEN IF ArcStale(pattern, r, ema5History', crossPrice')
            THEN /\ lastArcPattern' = pattern
                 /\ inv' = [inv EXCEPT ![t] = IdleInv]
            ELSE /\ UNCHANGED lastArcPattern
                 /\ inv' = [inv EXCEPT ![t] = [r EXCEPT !.pc = "arc_pos",
                                                        !.pattern = pattern]]
       ELSE /\ UNCHANGED lastArcPattern
            /\ inv' = [inv EXCEPT ![t] = IdleInv]

(***************************************************************************)
(* handleArcPattern has returned: this.lastArcPattern = arcPattern.        *)
(***************************************************************************)
ArcFinish(t, r) ==
    /\ lastArcPattern' = r.pattern
    /\ inv' = [inv EXCEPT ![t] = IdleInv]

(***************************************************************************)
(* openPosition returns to / throws into its caller.                       *)
(***************************************************************************)
OpenReturns(t, r) ==
    IF r.caller = "cts_open"
    THEN lastCrossSignal' = r.cross /\ ArcContinue(t, r)
    ELSE UNCHANGED lastCrossSignal /\ ArcFinish(t, r)

OpenThrows(t, r) ==
    /\ UNCHANGED lastCrossSignal
    /\ IF r.caller = "cts_open" THEN ArcContinue(t, r) ELSE ArcFinish(t, r)

(***************************************************************************)
(* closePosition returns to / throws into its caller.                      *)
(***************************************************************************)
CloseReturns(t, r) ==
    IF r.caller = "cts_exit"
    THEN lastCrossSignal' = "null" /\ ArcContinue(t, r)
    ELSE /\ UNCHANGED <<lastCrossSignal, lastArcPattern>>
         /\ inv' = [inv EXCEPT ![t] =
                      [r EXCEPT !.pc = "open_acct", !.caller = "arc_open", !.qty = 0,
                                !.dir = IF r.pattern = "TOP" THEN "short" ELSE "long"]]

CloseThrows(t, r) ==
    /\ UNCHANGED lastCrossSignal
    /\ IF r.caller = "cts_exit" THEN ArcContinue(t, r) ELSE ArcFinish(t, r)

StillCurrent == curEdge' = {u \in curEdge : inv'[u].pc # "idle"}

(***************************************************************************)
(* start(): initializeHistoricalData, before the stream is started.  The   *)
(* exchange returns n klines (all of them are committed, the last, still   *)
(* open one included); the EMAs of a flat history are its price.           *)
(***************************************************************************)
InitializeHistoricalData ==
    /\ ~bootstrapped
    /\ bootstrapped' = TRUE
    /\ posRead' = "none" /\ sink' = "none"
    /\ \E n \in {HistoryShort, historyLimit} :
         LET prices == [i \in 1..Min(n, maxClosingPrices) |-> HistPrice]
         IN /\ closingPrices' = prices
            /\ IF Len(prices) + 1 < ema50Period
               THEN UNCHANGED <<ema5History, ema50History, previousEma5,
                                previousEma50, base5>>
               ELSE /\ ema5History' = UpdateEmaHistory(ema5History, HistPrice)
                    /\ ema50History' = UpdateEmaHistory(ema50History, HistPrice)
                    /\ previousEma5' = HistPrice
                    /\ previousEma50' = HistPrice
                    /\ base5' = HistPrice
    /\ UNCHANGED <<lastArcPattern, lastCrossSignal, crossPrice, allowAddOrder,
                   inv, positionAmt, closedTicks, edgeSign, curEdge,
                   crossOpens, opensSinceClose>>

(***************************************************************************)
(* handleKline for a closed candle (kline.x): no await, one step.          *)
(***************************************************************************)
KlineClosed ==
    /\ bootstrapped
    /\ \E price \in Prices :
       \E emas \in CalculateEMAs(closingPrices, price, base5) :
         LET ema5 == emas[1]
             ema50 == emas[2]
             s == Sign(ema5 - ema50)
         IN IF ema5 = 0 \/ ema50 = 0
            THEN UNCHANGED botVars
            ELSE /\ closedTicks < MaxClosed
                 /\ closedTicks' = closedTicks + 1
                 /\ posRead' = "none" /\ sink' = "none"
                 /\ closingPrices' = AddPrice(closingPrices, price)
                 /\ ema5History' = UpdateEmaHistory(ema5History, ema5)
                 /\ ema50History' = UpdateEmaHistory(ema50History, ema50)
                 /\ previousEma5' = ema5
                 /\ previousEma50' = ema50
                 /\ base5' = ema5
                 /\ edgeSign' = s
                 /\ curEdge' = IF s # edgeSign THEN {} ELSE curEdge
                 /\ crossOpens' = IF s # edgeSign THEN 0 ELSE crossOpens
                 /\ UNCHANGED <<bootstrapped, lastArcPattern, lastCrossSignal,
                                crossPrice, allowAddOrder, inv, positionAmt,
                                opensSinceClose>>

(***************************************************************************)
(* handleKline for a tick of the open candle, up to its first await:       *)
(* updateLastEma, then checkTradeSignals up to getCurrentPosition.         *)
(***************************************************************************)
KlineOpenAt(t, price) ==
    /\ bootstrapped /\ inv[t].pc = "idle"
    /\ \E emas \in CalculateEMAs(closingPrices, price, base5) :
      LET ema5 == emas[1]
          ema50 == emas[2]
          s == Sign(ema5 - ema50)
          r == [IdleInv EXCEPT !.price = price, !.ema5 = ema5, !.ema50 = ema50]
          priceAboveEmas == price > ema5 /\ price > ema50
          priceBelowEmas == price < ema5 /\ price < ema50
          cross == IF previousEma5 > previousEma50 /\ ema5 < ema50 THEN "DOWN_CROSS"
                   ELSE IF previousEma5 < previousEma50 /\ ema5 > ema50 THEN "UP_CROSS"
                   ELSE "none"
      IN IF ema5 = 0 \/ ema50 = 0
         THEN UNCHANGED botVars
         ELSE /\ ema5History' = UpdateLastEma(ema5History, ema50History, ema5)
              /\ ema50History' = UpdateLastEma(ema50History, ema5History, ema50)
              /\ edgeSign' = s
              /\ crossOpens' = IF s # edgeSign THEN 0 ELSE crossOpens
              /\ posRead' = "none" /\ sink' = "none"
              /\ UNCHANGED <<closingPrices, base5, bootstrapped, lastCrossSignal,
                             crossPrice, allowAddOrder, positionAmt,
                             closedTicks, opensSinceClose>>
              /\ IF previousEma5 = 0 \/ previousEma50 = 0
                 THEN /\ previousEma5' = ema5
                      /\ previousEma50' = ema50
                      /\ ArcContinue(t, r)
                 ELSE /\ UNCHANGED <<previousEma5, previousEma50>>
                      /\ IF priceAboveEmas \/ priceBelowEmas \/ cross # "none"
                         THEN /\ inv' = [inv EXCEPT ![t] =
                                           [r EXCEPT !.pc = "cts_pos", !.cross = cross]]
                              /\ UNCHANGED lastArcPattern
                         ELSE ArcContinue(t, r)
              /\ curEdge' = {u \in (IF s # edgeSign THEN {} ELSE curEdge) \cup {t} :
                               inv'[u].pc # "idle"}

KlineOpen(t) == \E price \in Prices : KlineOpenAt(t, price)

(***************************************************************************)
(* checkTradeSignals, line 218: newPositionType.                           *)
(***************************************************************************)
NewPositionTypeSwapped(currentSignal) ==
    IF currentSignal = "DOWN_CROSS" THEN "long" ELSE "short"

NewPositionType(currentSignal) ==
    IF currentSignal = "DOWN_CROSS" THEN "short" ELSE "long"

(***************************************************************************)
(* getCurrentPosition returns to checkTradeSignals (lines 178-224) or to   *)
(* handleArcPattern (lines 276-294), or throws into their catch.           *)
(***************************************************************************)
GetPositionReturns(t) ==
    /\ inv[t].pc \in {"cts_pos", "arc_pos"}
    /\ UNCHANGED <<taVars, bootstrapped, allowAddOrder, positionAmt,
                   closedTicks, edgeSign, crossOpens, opensSinceClose>>
    /\ \E ok \in BOOLEAN :
         /\ posRead' = (IF ok THEN PositionType(positionAmt) ELSE "error")
         /\ sink' = "none"
         /\ LET r == inv[t]
                pos == PositionType(positionAmt)
                priceAboveEmas == r.price > r.ema5 /\ r.price > r.ema50
                priceBelowEmas == r.price < r.ema5 /\ r.price < r.ema50
            IN IF r.pc = "cts_pos"
               THEN IF ~ok
                    THEN UNCHANGED <<crossPrice, lastCrossSignal>> /\ ArcContinue(t, r)
                    ELSE IF (pos = "short" /\ priceAboveEmas) \/ (pos = "long" /\ priceBelowEmas)
                    THEN /\ inv' = [inv EXCEPT ![t] =
                                      [r EXCEPT !.pc = "close_pos", !.caller = "cts_exit"]]
                         /\ UNCHANGED <<crossPrice, lastCrossSignal, lastArcPattern>>
                    ELSE IF pos = "null" /\ r.cross # "none"
                    THEN /\ crossPrice' = r.price
                         /\ IF r.cross # lastCrossSignal
                            THEN /\ inv' = [inv EXCEPT ![t] =
                                      [r EXCEPT !.pc = "open_acct", !.caller = "cts_open",
                                                !.dir = NewPositionType(r.cross)]]
                                 /\ UNCHANGED <<lastCrossSignal, lastArcPattern>>
                            ELSE UNCHANGED lastCrossSignal /\ ArcContinue(t, r)
                    ELSE UNCHANGED <<crossPrice, lastCrossSignal>> /\ ArcContinue(t, r)
               ELSE /\ UNCHANGED <<crossPrice, lastCrossSignal>>
                    /\ LET held == IF r.pattern = "TOP" THEN "long" ELSE "short"
                           target == IF r.pattern = "TOP" THEN "short" ELSE "long"
                       IN IF ~ok
                          THEN ArcFinish(t, r)
                          ELSE IF pos = held
                          THEN /\ inv' = [inv EXCEPT ![t] =
                                            [r EXCEPT !.pc = "close_pos", !.caller = "arc_close"]]
                               /\ UNCHANGED lastArcPattern
                          ELSE IF pos # target
                          THEN /\ inv' = [inv EXCEPT ![t] =
                                            [r EXCEPT !.pc = "open_acct", !.caller = "arc_open", !.dir = target]]
                               /\ UNCHANGED lastArcPattern
                          ELSE ArcFinish(t, r)
    /\ StillCurrent

(***************************************************************************)
(* openPosition, lines 304-359: getAccountInfo, setLeverage and            *)
(* getExchangeInfo have returned (or one of them has thrown); the quantity *)
(* is rounded and compared with minQty; placeOrder is sent.                *)
(***************************************************************************)
OpenPrepared(t) ==
    /\ inv[t].pc = "open_acct"
    /\ posRead' = "none" /\ sink' = "none"
    /\ UNCHANGED <<taVars, bootstrapped, crossPrice, allowAddOrder, positionAmt,
                   closedTicks, edgeSign, opensSinceClose>>
    /\ \E ok \in BOOLEAN, roundedQuantity \in {MinQty - 1, MinQty} :
         LET r == inv[t]
         IN IF ok /\ ~(roundedQuantity < MinQty)
            THEN /\ inv' = [inv EXCEPT ![t] =
                              [r EXCEPT !.pc = "open_order", !.qty = roundedQuantity]]
                 /\ crossOpens' = IF r.caller = "cts_open" /\ t \in curEdge
                                  THEN Min(crossOpens + 1, 2) ELSE crossOpens
                 /\ UNCHANGED <<lastCrossSignal, lastArcPattern>>
            ELSE UNCHANGED crossOpens /\ OpenThrows(t, r)
    /\ StillCurrent

(***************************************************************************)
(* placeOrder of openPosition returns (the market order is filled) or      *)
(* throws; after it, sendSignal is awaited.                                *)
(***************************************************************************)
OpenOrderResponse(t) ==
    /\ inv[t].pc = "open_order"
    /\ posRead' = "none" /\ sink' = "none"
    /\ UNCHANGED <<taVars, bootstrapped, crossPrice, allowAddOrder,
                   closedTicks, edgeSign, crossOpens>>
    /\ \E ok \in BOOLEAN :
         LET r == inv[t]
         IN IF ok
            THEN /\ positionAmt' = IF r.dir = "long" THEN positionAmt + r.qty
                                   ELSE positionAmt - r.qty
                 /\ opensSinceClose' = Min(opensSinceClose + 1, 2)
                 /\ inv' = [inv EXCEPT ![t] = [r EXCEPT !.pc = "open_signal"]]
                 /\ UNCHANGED <<lastCrossSignal, lastArcPattern>>
            ELSE UNCHANGED <<positionAmt, opensSinceClose>> /\ OpenThrows(t, r)
    /\ StillCurrent

(***************************************************************************)
(* closePosition, lines 384-434: getCurrentPosition and getExchangeInfo    *)
(* have returned (or thrown); without a position it returns, otherwise the *)
(* reduce-only order for the reported quantity is sent.                    *)
(***************************************************************************)
ClosePrepared(t) ==
    /\ inv[t].pc = "close_pos"
    /\ UNCHANGED <<taVars, bootstrapped, crossPrice, allowAddOrder, positionAmt,
                   closedTicks, edgeSign, crossOpens, opensSinceClose>>
    /\ \E ok \in BOOLEAN :
         /\ posRead' = (IF ok THEN PositionType(positionAmt) ELSE "error")
         /\ sink' = "none"
         /\ LET r == inv[t]
                pos == PositionType(positionAmt)
            IN IF ~ok
               THEN CloseThrows(t, r)
               ELSE IF pos = "null"
               THEN CloseReturns(t, r)
               ELSE /\ inv' = [inv EXCEPT ![t] =
                                 [r EXCEPT !.pc = "close_order", !.qty = Abs(positionAmt),
                                           !.dir = IF pos = "long" THEN "SELL" ELSE "BUY"]]
                    /\ UNCHANGED <<lastCrossSignal, lastArcPattern>>
    /\ StillCurrent

(***************************************************************************)
(* placeOrder of closePosition returns or throws.  The exchange fills a    *)
(* reduce-only order only against a position of the opposite side.         *)
(***************************************************************************)
CloseOrderResponse(t) ==
    /\ inv[t].pc = "close_order"
    /\ posRead' = "none" /\ sink' = "none"
    /\ UNCHANGED <<taVars, bootstrapped, crossPrice, allowAddOrder,
                   closedTicks, edgeSign, crossOpens>>
    /\ \E ok \in BOOLEAN :
         LET r == inv[t]
             fills == (r.dir = "SELL" /\ positionAmt > 0) \/ (r.dir = "BUY" /\ positionAmt < 0)
             filled == Min(r.qty, Abs(positionAmt))
         IN IF ok /\ fills
            THEN /\ positionAmt' = IF r.dir = "SELL" THEN positionAmt - filled
                                   ELSE positionAmt + filled
                 /\ opensSinceClose' = 0
                 /\ inv' = [inv EXCEPT ![t] = [r EXCEPT !.pc = "close_signal"]]
                 /\ UNCHANGED <<lastCrossSignal, lastArcPattern>>
            ELSE UNCHANGED <<positionAmt, opensSinceClose>> /\ CloseThrows(t, r)
    /\ StillCurrent

(***************************************************************************)
(* sendSignal has finished (it swallows its own failures).  openPosition   *)
(* sets allowAddOrder[direction] and returns; closePosition resets         *)
(* allowAddOrder, then getAccountInfo returns or throws.                   *)
(***************************************************************************)
SendSignalRethrows(posted) == ~posted

SendSignalThrows(posted) == FALSE

SignalSent(t) ==
    /\ inv[t].pc \in {"open_signal", "close_signal"}
    /\ posRead' = "none"
    /\ UNCHANGED <<taVars, bootstrapped, crossPrice, positionAmt, closedTicks,
                   edgeSign, crossOpens, opensSinceClose>>
    /\ \E posted \in BOOLEAN :
         /\ sink' = (IF posted THEN "posted" ELSE "failed")
         /\ LET r == inv[t]
            IN IF SendSignalThrows(posted)
               THEN /\ UNCHANGED allowAddOrder
                    /\ IF r.pc = "open_signal" THEN OpenThrows(t, r)
                       ELSE CloseThrows(t, r)
               ELSE IF r.pc = "open_signal"
               THEN /\ allowAddOrder' = [allowAddOrder EXCEPT ![r.dir] = TRUE]
                    /\ OpenReturns(t, r)
               ELSE /\ allowAddOrder' = [long |-> FALSE, short |-> FALSE]
                    /\ \E ok \in BOOLEAN :
                         IF ok THEN CloseReturns(t, r) ELSE CloseThrows(t, r)
    /\ StillCurrent

NextBot ==
    \/ (InitializeHistoricalData /\ UNCHANGED <<wsVars, delayVars, obsVars>>)
    \/ (KlineClosed /\ UNCHANGED <<wsVars, delayVars, obsVars>>)
    \/ (\E t \in Slots : KlineOpen(t) /\ UNCHANGED <<wsVars, delayVars, obsVars>>)
    \/ (\E t \in Slots : GetPositionReturns(t) /\ UNCHANGED <<wsVars, delayVars, obsVars>>)
    \/ (\E t \in Slots : OpenPrepared(t) /\ UNCHANGED <<wsVars, delayVars, obsVars>>)
    \/ (\E t \in Slots : OpenOrderResponse(t) /\ UNCHANGED <<wsVars, delayVars, obsVars>>)
    \/ (\E t \in Slots : ClosePrepared(t) /\ UNCHANGED <<wsVars, delayVars, obsVars>>)
    \/ (\E t \in Slots : CloseOrderResponse(t) /\ UNCHANGED <<wsVars, delayVars, obsVars>>)
    \/ (\E t \in Slots : SignalSent(t) /\ UNCHANGED <<wsVars, delayVars, obsVars>>)

SpecBot == Init /\ [][NextBot]_vars

(***************************************************************************)
(* The bot under a stream paced so that at most MaxPending handleKline     *)
(* invocations are pending at a time, over MaxCandles closed candles.      *)
(***************************************************************************)
PacedSlots == 1..MaxPending

NextPaced ==
    \/ (InitializeHistoricalData /\ UNCHANGED <<wsVars, delayVars, obsVars>>)
    \/ (closedTicks < MaxCandles /\ KlineClosed
           /\ UNCHANGED <<wsVars, delayVars, obsVars>>)
    \/ (\E t \in PacedSlots : KlineOpen(t) /\ UNCHANGED <<wsVars, delayVars, obsVars>>)
    \/ (\E t \in PacedSlots : GetPositionReturns(t) /\ UNCHANGED <<wsVars, delayVars, obsVars>>)
    \/ (\E t \in PacedSlots : OpenPrepared(t) /\ UNCHANGED <<wsVars, delayVars, obsVars>>)
    \/ (\E t \in PacedSlots : OpenOrderResponse(t) /\ UNCHANGED <<wsVars, delayVars, obsVars>>)
    \/ (\E t \in PacedSlots : ClosePrepared(t) /\ UNCHANGED <<wsVars, delayVars, obsVars>>)
    \/ (\E t \in PacedSlots : CloseOrderResponse(t) /\ UNCHANGED <<wsVars, delayVars, obsVars>>)
    \/ (\E t \in PacedSlots : SignalSent(t) /\ UNCHANGED <<wsVars, delayVars, obsVars>>)

SpecPaced == Init /\ [][NextPaced]_vars

(***************************************************************************)
(* The exchange's entryPrice of the position after an order is filled: the *)
(* fill price for a new or reversed position, the average when the         *)
(* position grows, unchanged when it shrinks.                              *)
(***************************************************************************)
EntryAfter(amt, amt2, entry, price) ==
    IF amt2 = 0 THEN 0
    ELSE IF amt = 0 \/ Sign(amt) # Sign(amt2) THEN price
    ELSE IF Abs(amt2) > Abs(amt)
    THEN (entry * Abs(amt) + price * (Abs(amt2) - Abs(amt))) \div Abs(amt2)
    ELSE entry

(***************************************************************************)
(* checkPositionStatus, lines 503-523: pnlPercent is unrealizedProfit over *)
(* initialMargin times 100, with unrealizedProfit (mark - entry) * amount  *)
(* and initialMargin |amount| * entry / leverage; the tests against        *)
(* stopLoss and takeProfit.                                                *)
(***************************************************************************)
PnlBeyond(amt, entry, mark) ==
    LET gain == Sign(amt) * (mark - entry) * leverage * 100
    IN amt # 0 /\ entry > 0
       /\ (gain <= -(stopLoss * entry) \/ gain >= takeProfit * entry)

(***************************************************************************)
(* The bot together with the exchange's entry price: handleKline as in     *)
(* SpecPaced, every tick and every fill noted on the exchange's side.      *)
(***************************************************************************)
StopRest == UNCHANGED <<wsVars, delayVars, feedVars, arcVars, openCall, committed>>

NextStop ==
    \/ (InitializeHistoricalData /\ entryPrice' = entryPrice /\ tickPrice' = 0 /\ StopRest)
    \/ (closedTicks < MaxCandles /\ KlineClosed
           /\ entryPrice' = entryPrice /\ tickPrice' = 0 /\ StopRest)
    \/ (\E t \in PacedSlots, price \in Prices :
           KlineOpenAt(t, price) /\ entryPrice' = entryPrice /\ tickPrice' = price
           /\ StopRest)
    \/ (\E t \in PacedSlots :
           GetPositionReturns(t) /\ entryPrice' = entryPrice /\ tickPrice' = 0 /\ StopRest)
    \/ (\E t \in PacedSlots :
           OpenPrepared(t) /\ entryPrice' = entryPrice /\ tickPrice' = 0 /\ StopRest)
    \/ (\E t \in PacedSlots :
           OpenOrderResponse(t) /\ tickPrice' = 0 /\ StopRest
           /\ entryPrice' = EntryAfter(positionAmt, positionAmt', entryPrice, inv[t].price))
    \/ (\E t \in PacedSlots :
           ClosePrepared(t) /\ entryPrice' = entryPrice /\ tickPrice' = 0 /\ StopRest)
    \/ (\E t \in PacedSlots :
           CloseOrderResponse(t) /\ tickPrice' = 0 /\ StopRest
           /\ entryPrice' = EntryAfter(positionAmt, positionAmt', entryPrice, inv[t].price))
    \/ (\E t \in PacedSlots :
           SignalSent(t) /\ entryPrice' = entryPrice /\ tickPrice' = 0 /\ StopRest)

SpecStop == Init /\ [][NextStop]_vars

(***************************************************************************)
(* handleArcPattern from its call to its first await (lines 236-276), for  *)
(* any pattern, price and EMAs it can be called with, against any          *)
(* crossPrice and EMA5 history: it returns at the staleness tests or       *)
(* because the pattern is lastArcPattern, or goes on to getCurrentPosition.*)
(***************************************************************************)
InitGuard ==
    /\ InitWS /\ InitDelay /\ InitFeed /\ InitArc /\ InitEx
    /\ closingPrices = [i \in 1..historyLimit |-> HistPrice]
    /\ ema5History \in GuardHistories
    /\ ema50History = [i \in 1..Len(ema5History) |-> HistPrice]
    /\ previousEma5 = HistPrice
    /\ previousEma50 = HistPrice
    /\ base5 = HistPrice
    /\ bootstrapped = TRUE
    /\ lastArcPattern = "null"
    /\ lastCrossSignal = "null"
    /\ crossPrice \in GuardCrossPrices
    /\ allowAddOrder = [long |-> FALSE, short |-> FALSE]
    /\ \E pattern \in {"TOP", "BOTTOM"}, price \in GuardPrices,
          ema5 \in Ema5Vals, ema50 \in Ema50Vals :
         inv = [t \in Slots |->
                  IF t = 1
                  THEN [IdleInv EXCEPT !.pc = "arc_enter", !.pattern = pattern,
                                       !.price = price, !.ema5 = ema5,
                                       !.ema50 = ema50]
                  ELSE IdleInv]
    /\ positionAmt = 0
    /\ closedTicks = 0
    /\ edgeSign = 2
    /\ curEdge = {}
    /\ crossOpens = 0
    /\ opensSinceClose = 0
    /\ posRead = "none"
    /\ sink = "none"

HandleArcPatternEnter(t) ==
    /\ inv[t].pc = "arc_enter"
    /\ LET r == inv[t]
       IN IF ArcStale(r.pattern, r, ema5History, crossPrice)
             \/ r.pattern = lastArcPattern
          THEN /\ inv' = [inv EXCEPT ![t] = IdleInv]
               /\ lastArcPattern' = r.pattern
          ELSE /\ inv' = [inv EXCEPT ![t] = [r EXCEPT !.pc = "arc_pos"]]
               /\ UNCHANGED lastArcPattern
    /\ UNCHANGED <<taVars, bootstrapped, lastCrossSignal, crossPrice, allowAddOrder,
                   positionAmt, closedTicks, edgeSign, curEdge, crossOpens,
                   opensSinceClose, posRead, sink>>

NextGuard ==
    \E t \in Slots : HandleArcPatternEnter(t) /\ UNCHANGED <<wsVars, delayVars, obsVars>>

SpecGuard == InitGuard /\ [][NextGuard]_vars

(***************************************************************************)
(* openPosition, lines 304-359, and closePosition on their own: the        *)
(* balance of getAccountInfo, the price, the reported position and the     *)
(* instrument rules of getExchangeInfo are any values.                     *)
(* Quantities are in thousandths, the finest precision drawn.              *)
(***************************************************************************)
Pow10(n) == IF n = 0 THEN 1 ELSE IF n = 1 THEN 10 ELSE IF n = 2 THEN 100 ELSE 1000

RoundedQuantity(balance, price, precision) ==
    LET p == IF precision <= 0 THEN 3 ELSE precision    \* quantityPrecision || 3
    IN ((balance * positionSize * leverage * Pow10(p)) \div (100 * price)) * Pow10(3 - p)

OpenPositionCalled ==
    /\ openCall.pc = "idle"
    /\ \E price \in Prices, balance \in Balances, direction \in {"long", "short"},
          ok \in BOOLEAN :
         openCall' = IF ok
                     THEN [NoOpenCall EXCEPT !.pc = "info", !.price = price,
                                             !.direction = direction,
                                             !.availableBalance = balance]
                     ELSE [NoOpenCall EXCEPT !.pc = "threw", !.price = price,
                                             !.direction = direction]

OpenPositionSized ==
    /\ openCall.pc = "info"
    /\ \E precision \in QuantityPrecisions, min \in MinQtys, ok \in BOOLEAN :
         LET q == RoundedQuantity(openCall.availableBalance, openCall.price, precision)
             c == [openCall EXCEPT !.quantityPrecision = precision, !.minQty = min,
                                   !.roundedQuantity = q]
         IN openCall' = IF ~ok THEN [openCall EXCEPT !.pc = "threw"]
                        ELSE IF q < min THEN [c EXCEPT !.pc = "threw"]
                        ELSE [c EXCEPT !.pc = "order", !.order = q,
                                       !.side = IF openCall.direction = "long"
                                                THEN "BUY" ELSE "SELL"]

(***************************************************************************)
(* closePosition, lines 381-434: getCurrentPosition reports any position   *)
(* (or throws); without one the call returns; otherwise the reported       *)
(* quantity is rounded, compared with minQty and sent as a reduce-only     *)
(* order.                                                                  *)
(***************************************************************************)
ClosePositionCalled ==
    /\ openCall.pc = "idle"
    /\ \E price \in Prices, amt \in PositionAmts, ok \in BOOLEAN :
         openCall' = IF ~ok THEN [NoOpenCall EXCEPT !.pc = "threw", !.price = price]
                     ELSE IF amt = 0
                     THEN [NoOpenCall EXCEPT !.pc = "returned", !.price = price]
                     ELSE [NoOpenCall EXCEPT !.pc = "held", !.price = price,
                                             !.positionAmt = amt]

RoundedCloseQuantity(qty, precision) ==
    LET p == IF precision <= 0 THEN 3 ELSE precision    \* quantityPrecision || 3
    IN (qty \div Pow10(3 - p)) * Pow10(3 - p)

ClosePositionSized ==
    /\ openCall.pc = "held"
    /\ \E precision \in QuantityPrecisions, min \in MinQtys, ok \in BOOLEAN :
         LET q == RoundedCloseQuantity(Abs(openCall.positionAmt), precision)
             c == [openCall EXCEPT !.quantityPrecision = precision, !.minQty = min,
                                   !.roundedQuantity = q]
         IN openCall' = IF ~ok THEN [openCall EXCEPT !.pc = "threw"]
                        ELSE IF q < min THEN [c EXCEPT !.pc = "threw"]
                        ELSE [c EXCEPT !.pc = "order", !.order = q,
                                       !.side = IF openCall.positionAmt > 0
                                                THEN "SELL" ELSE "BUY",
                                       !.reduceOnly = TRUE]

OpenPositionEnds ==
    /\ openCall.pc \in {"order", "threw", "returned"}
    /\ openCall' = NoOpenCall

SizeRest == UNCHANGED <<wsVars, delayVars, botVars, feedVars, arcVars, exVars, committed>>

NextSize ==
    \/ (OpenPositionCalled /\ SizeRest)
    \/ (OpenPositionSized /\ SizeRest)
    \/ (ClosePositionCalled /\ SizeRest)
    \/ (ClosePositionSized /\ SizeRest)
    \/ (OpenPositionEnds /\ SizeRest)

SpecSize == Init /\ [][NextSize]_vars

(***************************************************************************)
(*              The candles committed at start and on connect              *)
(*                                                                         *)
(* start(): initializeHistoricalData, then startWebSocket; connect() hands *)
(* the closed klines it fetched to handleKline one after the other, then   *)
(* creates the transport; when the transport closes, handleReconnect calls *)
(* connect() again.  The session stays within one candle interval (1h),    *)
(* the history is flat at HistPrice, so its EMAs are HistPrice.            *)
(***************************************************************************)
\* connect() fetches klines until a candle has been committed this often
MaxCommits == 3

BootEmas(prices) ==
    IF Len(prices) + 1 < ema50Period THEN <<0, 0>> ELSE <<HistPrice, HistPrice>>

BootRest == UNCHANGED <<delayVars, feedVars, arcVars, exVars, openCall>>

BootInitialize ==
    /\ InitializeHistoricalData
    /\ committed' = [c \in CandleIds |->
                       IF c > historyLimit - Len(closingPrices') THEN 1 ELSE 0]
    /\ UNCHANGED wsVars
    /\ BootRest

BootConnect ==
    /\ bootstrapped
    /\ Connect
    /\ UNCHANGED <<botVars, committed>>
    /\ BootRest

BootFetched ==
    /\ Running /\ fetching > 0 /\ klines = << >>
    /\ committed[historyLimit - 1] < MaxCommits
    /\ \E n \in {HistoryShort, connectLimit} : klines' = FetchedKlines(n)
    /\ sent' = << >> /\ delivered' = << >> /\ frame' = "none" /\ fired' = "none"
    /\ lastCall' = NoCall
    /\ UNCHANGED <<started, ws, readyState, pingInterval, pongTimeout, watchdogs,
                   reconnectAttempts, isReconnecting, messageAgeOver,
                   subscriptions, fetching, backoff, delay, failed, proc,
                   closeCalled>>
    /\ UNCHANGED <<botVars, committed>>
    /\ BootRest

BootDeliver ==
    /\ Running /\ fetching > 0 /\ klines # << >>
    /\ Len(klines) > 1
    /\ LET c == Head(klines)
           emas == BootEmas(closingPrices)
       IN /\ delivered' = <<[e |-> "kline", t |-> c, x |-> TRUE]>>
          /\ klines' = Tail(klines)
          /\ IF emas[1] = 0 \/ emas[2] = 0
             THEN UNCHANGED <<taVars, committed>>
             ELSE /\ closingPrices' = AddPrice(closingPrices, HistPrice)
                  /\ committed' = [committed EXCEPT ![c] = @ + 1]
                  /\ ema5History' = UpdateEmaHistory(ema5History, emas[1])
                  /\ ema50History' = UpdateEmaHistory(ema50History, emas[2])
                  /\ previousEma5' = emas[1]
                  /\ previousEma50' = emas[2]
                  /\ base5' = emas[1]
    /\ sent' = << >> /\ frame' = "none" /\ fired' = "none" /\ lastCall' = NoCall
    /\ UNCHANGED <<started, ws, readyState, pingInterval, pongTimeout, watchdogs,
                   reconnectAttempts, isReconnecting, messageAgeOver,
                   subscriptions, fetching, backoff, delay, failed, proc,
                   closeCalled>>
    /\ UNCHANGED <<bootstrapped, lastArcPattern, lastCrossSignal, crossPrice,
                   allowAddOrder, inv, positionAmt, closedTicks, edgeSign,
                   curEdge, crossOpens, opensSinceClose, posRead, sink>>
    /\ BootRest

BootConnected ==
    /\ Running /\ fetching > 0 /\ Len(klines) = 1
    /\ klines' = << >>
    /\ fetching' = fetching - 1
    /\ ws' = "ref"
    /\ readyState' = "CONNECTING"
    /\ pingInterval' = "armed"
    /\ pongTimeout' = "null"
    /\ watchdogs' = Min(watchdogs + 1, MaxWatchdogs)
    /\ sent' = << >> /\ delivered' = << >> /\ frame' = "none" /\ fired' = "none"
    /\ lastCall' = NoCall
    /\ UNCHANGED <<started, reconnectAttempts, isReconnecting, messageAgeOver,
                   subscriptions, backoff, delay, failed, proc, closeCalled>>
    /\ UNCHANGED <<botVars, committed>>
    /\ BootRest

NextBoot ==
    \/ BootInitialize
    \/ BootConnect
    \/ BootFetched
    \/ BootDeliver
    \/ BootConnected
    \/ (TransportOpen /\ UNCHANGED <<delayVars, botVars, obsVars>>)
    \/ (TransportClose /\ UNCHANGED <<delayVars, botVars, obsVars>>)
    \/ (BackoffElapsed /\ UNCHANGED <<delayVars, botVars, obsVars>>)

SpecBoot == Init /\ [][NextBoot]_vars

(***************************************************************************)
(*        handleKline as the feed of TechnicalAnalysis                     *)
(*                                                                         *)
(* The part of handleKline that reads and writes the indicator state, on   *)
(* the bot as constructed or after initializeHistoricalData: one step per  *)
(* candle event, the event and the EMAs computed for it kept for           *)
(* inspection.  The first MaxVaried events are closed candles or ticks at  *)
(* any price; the closed candles after them repeat the last price.         *)
(***************************************************************************)
FeedRoom ==
    /\ fed < MaxFeeds
    /\ Len(ema5History) < MaxFeedHistory

FeedPrices == IF fed < MaxVaried THEN Prices ELSE {fedPrice}

(***************************************************************************)
(* handleKline, lines 121-142, closed candle (kline.x): calculateEMAs,     *)
(* return when either EMA is null, else addPrice and updateEmaHistory.     *)
(***************************************************************************)
FeedClosed ==
    /\ FeedRoom
    /\ \E price \in FeedPrices :
       \E emas \in CalculateEMAs(closingPrices, price, base5) :
         /\ fed' = fed + 1
         /\ fedKind' = "closed"
         /\ fedPrice' = price
         /\ fedEma5' = emas[1]
         /\ fedEma50' = emas[2]
         /\ IF emas[1] = 0 \/ emas[2] = 0
            THEN UNCHANGED taVars
            ELSE /\ closingPrices' = AddPrice(closingPrices, price)
                 /\ ema5History' = UpdateEmaHistory(ema5History, emas[1])
                 /\ ema50History' = UpdateEmaHistory(ema50History, emas[2])
                 /\ previousEma5' = emas[1]
                 /\ previousEma50' = emas[2]
                 /\ base5' = emas[1]
    /\ closedTicks' = closedTicks + 1
    /\ UNCHANGED <<bootstrapped, lastArcPattern, lastCrossSignal, crossPrice,
                   allowAddOrder, inv, positionAmt, edgeSign,
                   curEdge, crossOpens, opensSinceClose, posRead, sink>>

(***************************************************************************)
(* handleKline, lines 121-145, tick of the open candle: calculateEMAs,     *)
(* return when either EMA is null, else updateLastEma; checkTradeSignals,  *)
(* lines 164-168, fills previousEma5/previousEma50 when they are null.     *)
(***************************************************************************)
FeedTick ==
    /\ FeedRoom /\ fed < MaxVaried
    /\ \E price \in Prices :
       \E emas \in CalculateEMAs(closingPrices, price, base5) :
         /\ fed' = fed + 1
         /\ fedKind' = "tick"
         /\ fedPrice' = price
         /\ fedEma5' = emas[1]
         /\ fedEma50' = emas[2]
         /\ IF emas[1] = 0 \/ emas[2] = 0
            THEN UNCHANGED taVars
            ELSE /\ ema5History' = UpdateLastEma(ema5History, ema50History, emas[1])
                 /\ ema50History' = UpdateLastEma(ema50History, ema5History, emas[2])
                 /\ IF previousEma5 = 0 \/ previousEma50 = 0
                    THEN previousEma5' = emas[1] /\ previousEma50' = emas[2]
                    ELSE UNCHANGED <<previousEma5, previousEma50>>
                 /\ UNCHANGED <<closingPrices, base5>>
    /\ UNCHANGED <<bootstrapped, lastArcPattern, lastCrossSignal, crossPrice,
                   allowAddOrder, inv, positionAmt, closedTicks, edgeSign,
                   curEdge, crossOpens, opensSinceClose, posRead, sink>>

NextFeed ==
    \/ (InitializeHistoricalData /\ fed = 0 /\ UNCHANGED <<wsVars, delayVars, obsVars>>)
    \/ (FeedClosed /\ UNCHANGED <<wsVars, delayVars, arcVars, exVars, openCall, committed>>)
    \/ (FeedTick /\ UNCHANGED <<wsVars, delayVars, arcVars, exVars, openCall, committed>>)

SpecFeed == Init /\ [][NextFeed]_vars

(***************************************************************************)
(*     The EMA histories under updateEmaHistory / updateLastEma            *)
(*                                                                         *)
(* What handleKline does with the EMAs of a candle event once it has       *)
(* them (lines 136-149), for EMAs of any value: updateEmaHistory for a     *)
(* closed candle; updateLastEma for a tick and, after the await of         *)
(* checkTradeSignals, checkArcPattern with the EMAs of that tick.  One     *)
(* tick is between the two at a time; closed candles may come in between.  *)
(***************************************************************************)
LastFive(h) == SubSeq(h, Len(h) - 4, Len(h))

ArcClosed ==
    /\ arcN < MaxArcUpdates
    /\ \E e5 \in ArcEma5Vals, e50 \in ArcClosedEma50Vals :
         /\ ema5History' = UpdateEmaHistory(ema5History, e5)
         /\ ema50History' = UpdateEmaHistory(ema50History, e50)
         /\ previousEma5' = e5
         /\ previousEma50' = e50
         /\ arcUpdates' = LET a == Append(arcUpdates, [e5 |-> e5, e50 |-> e50])
                          IN IF Len(a) > 5 THEN Tail(a) ELSE a
    /\ arcN' = arcN + 1
    /\ arcOp' = "closed"
    /\ arcCur' = NoEmas
    /\ arcResult' = "null"
    /\ UNCHANGED <<arcTicks, arcPend, closingPrices, base5>>

ArcTickUpdate ==
    /\ arcPend = NoEmas /\ arcTicks < MaxArcTicks
    /\ arcTicks' = arcTicks + 1
    /\ \E e5 \in ArcEma5Vals, e50 \in ArcEma50Vals :
         /\ ema5History' = UpdateLastEma(ema5History, ema50History, e5)
         /\ ema50History' = UpdateLastEma(ema50History, ema5History, e50)
         /\ arcPend' = [e5 |-> e5, e50 |-> e50]
    /\ arcOp' = "tick"
    /\ arcCur' = NoEmas
    /\ arcResult' = "null"
    /\ UNCHANGED <<arcN, arcUpdates, closingPrices, previousEma5,
                   previousEma50, base5>>

ArcTickCheck ==
    /\ arcPend # NoEmas
    /\ arcResult' = CheckArcPattern(ema5History, ema50History,
                                    arcPend.e5, arcPend.e50)
    /\ arcCur' = arcPend
    /\ arcPend' = NoEmas
    /\ arcOp' = "check"
    /\ UNCHANGED <<arcN, arcTicks, arcUpdates, taVars>>

ArcRest ==
    UNCHANGED <<wsVars, delayVars, feedVars, bootstrapped, lastArcPattern,
                lastCrossSignal, crossPrice, allowAddOrder, inv, positionAmt,
                closedTicks, edgeSign, curEdge, crossOpens, opensSinceClose,
                posRead, sink, exVars, openCall, committed>>

NextArc ==
    \/ (ArcClosed /\ ArcRest)
    \/ (ArcTickUpdate /\ ArcRest)
    \/ (ArcTickCheck /\ ArcRest)

SpecArc == Init /\ [][NextArc]_vars

(***************************************************************************)
(* Sanity of the manager model.                                            *)
(***************************************************************************)
TypeOKWS ==
    /\ started \in BOOLEAN
    /\ ws \in {"null", "ref"}
    /\ readyState \in {"NONE", "CONNECTING", "OPEN", "CLOSING", "CLOSED"}
    /\ pingInterval \in {"null", "armed"}
    /\ pongTimeout \in {"null", "armed", "fired"}
    /\ watchdogs \in 0..MaxWatchdogs
    /\ reconnectAttempts \in 0..maxReconnectAttempts
    /\ isReconnecting \in BOOLEAN
    /\ subscriptions \subseteq Channels
    /\ fetching \in 0..1
    /\ backoff \in 0..1
    /\ fetching + backoff <= 1
    /\ proc \in {"running", "exited"}

(***************************************************************************)
(* Sanity of the bot model.                                                *)
(***************************************************************************)
TypeOKBot ==
    /\ positionAmt \in -(MaxInFlight * MinQty)..(MaxInFlight * MinQty)
    /\ \A t \in Slots :
         inv[t].pc \in {"idle", "cts_pos", "arc_pos", "open_acct", "open_order",
                        "open_signal", "close_pos", "close_order", "close_signal"}
    /\ Len(ema5History) = Len(ema50History)
    /\ crossOpens \in 0..2 /\ opensSinceClose \in 0..2
    /\ posRead \in {"none", "error", "null", "long", "short"}
    /\ sink \in {"none", "posted", "failed"}
    /\ curEdge \subseteq Slots

(***************************************************************************)
(* The position phase of the specification, read off the exchange position *)
(* and the order calls in flight.                                          *)
(***************************************************************************)
OrdersInFlight == {t \in Slots : inv[t].pc \in {"open_order", "close_order"}}

PositionPhase ==
    IF \E t \in Slots : inv[t].pc = "open_order" THEN "Opening"
    ELSE IF \E t \in Slots : inv[t].pc = "close_order" THEN "Closing"
    ELSE IF positionAmt # 0 THEN "Open"
    ELSE "Flat"

(***************************************************************************)
(* C1: a crossover open fires at most once per sign change of              *)
(* ema5 - ema50: the ticks that follow a sign change, up to the next one,  *)
(* send at most one crossover open order between them.                     *)
(***************************************************************************)
C1_OneOpenPerEdge == crossOpens <= 1

(***************************************************************************)
(* C2: at most one order placement is in flight at any time, and no two    *)
(* open orders are filled without a filled close between them.             *)
(***************************************************************************)
C2_OneTransitionAtATime ==
    /\ Cardinality(OrdersInFlight) <= 1
    /\ opensSinceClose <= 1

(***************************************************************************)
(* C4: openPosition sends no order while the position phase is Opening or  *)
(* Open.                                                                   *)
(***************************************************************************)
C4_OpenRejectedWhenHeld ==
    [][\A t \in Slots :
          (inv[t].pc # "open_order" /\ inv'[t].pc = "open_order")
              => PositionPhase \notin {"Opening", "Open"}]_vars

(***************************************************************************)
(* C3: after a transport close or error the manager keeps retrying: from   *)
(* every Reconnecting state it eventually reaches Connected or Failed      *)
(* (as long as nobody calls close()).                                      *)
(***************************************************************************)
C3_ReconnectSettles ==
    (Phase = "Reconnecting" /\ ~closeCalled)
        ~> (Phase \in {"Connected", "Failed"} \/ closeCalled)

(***************************************************************************)
(* C5: every step that opens the transport sends the whole subscription    *)
(* set as exactly one SUBSCRIBE frame, and no frame when the set is empty. *)
(***************************************************************************)
C5_ReplayOnOpen ==
    [][(readyState # "OPEN" /\ readyState' = "OPEN") =>
          /\ subscriptions' = subscriptions
          /\ (subscriptions = {} => sent' = << >>)
          /\ (subscriptions # {} =>
                 /\ Len(sent') = 1
                 /\ sent'[1].method = "SUBSCRIBE"
                 /\ sent'[1].params = subscriptions)]_vars

C5_Witness ==
    /\ readyState = "OPEN" /\ delay > 0
    /\ sent = <<[method |-> "SUBSCRIBE", params |-> Channels]>>

(***************************************************************************)
(* C6: subscribe(channel) / unsubscribe(channel) change the subscription   *)
(* set whatever the state of the transport: right after subscribe the      *)
(* channel is in the set, right after unsubscribe it is not.               *)
(***************************************************************************)
C6_SetMutatedAlways ==
    /\ (lastCall.op = "subscribe" => lastCall.channel \in subscriptions)
    /\ (lastCall.op = "unsubscribe" => lastCall.channel \notin subscriptions)

(***************************************************************************)
(* C7: once close() has been called no timer of the manager is armed: no   *)
(* ping interval, no pong timeout, no idle monitor, no reconnect delay.    *)
(***************************************************************************)
C7_NoTimerAfterClose ==
    closeCalled =>
        /\ pingInterval # "armed"
        /\ pongTimeout # "armed"
        /\ watchdogs = 0
        /\ backoff = 0

(***************************************************************************)
(* C8: when the connection stays down and the reconnect attempts are used  *)
(* up, the manager ends in Failed, with the process left running.          *)
(***************************************************************************)
C8_FailedReported ==
    (<>[](started /\ Phase # "Connected" /\ ~closeCalled))
        => <>(Phase = "Failed" /\ proc = "running")

(***************************************************************************)
(* C9: the delay of attempt a is min(base * 2^(a-1), maxDelay): it follows *)
(* the doubling up to the cap, never exceeds the cap and never decreases   *)
(* from one attempt to the next.                                           *)
(***************************************************************************)
C9_DelaySequence ==
    /\ [](dAttempt >= 1 => (dDelay = Min(dRaw, MaxDelay) /\ dDelay <= MaxDelay))
    /\ [][(dAttempt >= 1 /\ dAttempt' = dAttempt + 1) => dDelay' >= dDelay]_vars

C9_Witness ==
    /\ dBase = reconnectDelay /\ dAttempt = 4
    /\ dRaw = 40000 /\ dDelay = MaxDelay

(***************************************************************************)
(* C10: the attempt counter is 0 in every Connected state, and a close of  *)
(* an open transport that starts a reconnect starts it at attempt 1.       *)
(***************************************************************************)
C10_AttemptResetOnOpen ==
    /\ [](readyState = "OPEN" => reconnectAttempts = 0)
    /\ [][(readyState = "OPEN" /\ readyState' = "CLOSED" /\ backoff' > backoff)
            => (reconnectAttempts' = 1 /\ delay' = Min(reconnectDelay, MaxDelay))]_vars

C10_Witness ==
    /\ readyState = "OPEN" /\ reconnectAttempts = 0
    /\ delay > 0 /\ ~isReconnecting

(***************************************************************************)
(* C11: when the pong timeout of a ping sent on an open transport fires    *)
(* (no pong has cleared it), the transport is force-terminated; its close  *)
(* puts the manager in Reconnecting with attempt 1, and that close does    *)
(* come (as long as nobody calls close()).                                 *)
(***************************************************************************)
C11_PongTimeoutReconnects ==
    /\ [][(readyState = "OPEN" /\ pongTimeout = "armed" /\ pongTimeout' = "fired")
            => (readyState' = "CLOSING" /\ reconnectAttempts' = 0)]_vars
    /\ [][(pongTimeout = "fired" /\ readyState = "CLOSING" /\ readyState' = "CLOSED")
            => (reconnectAttempts' = 1 /\ Phase' = "Reconnecting")]_vars
    /\ (pongTimeout = "fired" /\ readyState = "CLOSING")
          ~> ((Phase = "Reconnecting" /\ reconnectAttempts = 1) \/ closeCalled)

C11_Witness ==
    /\ readyState = "CLOSING" /\ pongTimeout = "fired"
    /\ reconnectAttempts = 0 /\ ~isReconnecting /\ delay > 0

(***************************************************************************)
(* C12: every closed-candle event appends its close price to               *)
(* closingPrices, dropping the oldest entry when over capacity, also       *)
(* while fewer prices than the EMA period have been collected.             *)
(***************************************************************************)
C12_ClosedCandleCommitted ==
    [][(fed' = fed + 1 /\ fedKind' = "closed")
          => closingPrices' = AddPrice(closingPrices, fedPrice')]_vars

(***************************************************************************)
(* C13: on a bot with empty indicator state, the EMA50 computed for the    *)
(* k-th closed candle fed is null for k = 1..49 and defined for k = 50.    *)
(***************************************************************************)
C13_Ema50DefinedAtFiftieth ==
    (~bootstrapped /\ fedKind = "closed" /\ closedTicks <= ema50Period)
        => (fedEma50 = 0 <=> closedTicks < ema50Period)

(***************************************************************************)
(* C14: closingPrices never holds more than maxClosingPrices entries, and  *)
(* ema5History and ema50History never more than maxEma5History each.       *)
(***************************************************************************)
C14_HistoriesBounded ==
    /\ Len(closingPrices) <= maxClosingPrices
    /\ Len(ema5History) <= maxEma5History
    /\ Len(ema50History) <= maxEma5History

(***************************************************************************)
(* C15: a closed-candle update appends the candle's EMA5 once to           *)
(* ema5History and its EMA50 once to ema50History (the oldest entry may    *)
(* be dropped to stay within capacity).                                    *)
(***************************************************************************)
C15_SingleAppend ==
    [][(fed' = fed + 1 /\ fedKind' = "closed" /\ fedEma5' # 0 /\ fedEma50' # 0)
          => /\ ema5History' \in {Append(ema5History, fedEma5'),
                                  Tail(Append(ema5History, fedEma5'))}
             /\ ema50History' \in {Append(ema50History, fedEma50'),
                                   Tail(Append(ema50History, fedEma50'))}]_vars

(***************************************************************************)
(* C16: a tick of the open candle leaves closingPrices and the lengths of  *)
(* ema5History and ema50History unchanged; all it changes in the histories *)
(* is their last entry, which becomes the EMA of the tick.                 *)
(***************************************************************************)
C16_TickOverwritesLast ==
    [][(fed' = fed + 1 /\ fedKind' = "tick")
          => /\ closingPrices' = closingPrices
             /\ Len(ema5History') = Len(ema5History)
             /\ Len(ema50History') = Len(ema50History)
             /\ \A i \in 1..(Len(ema5History) - 1) : ema5History'[i] = ema5History[i]
             /\ \A i \in 1..(Len(ema50History) - 1) : ema50History'[i] = ema50History[i]
             /\ (fedEma5' # 0 /\ fedEma50' # 0 /\ Len(ema5History) > 0)
                   => /\ ema5History'[Len(ema5History)] = fedEma5'
                      /\ ema50History'[Len(ema50History)] = fedEma50']_vars

C16_Witness ==
    /\ fedKind = "tick" /\ fed = MaxVaried /\ closedTicks = 1
    /\ Len(ema5History) = 4
    /\ ema5History[4] = fedEma5
    /\ ema5History[4] # ema5History[3]

(***************************************************************************)
(* C17: checkArcPattern reports a top only when the current EMA5 is below  *)
(* the current EMA50, and a bottom only when it is above.                  *)
(***************************************************************************)
C17_PostReversalOrientation ==
    arcOp = "check" =>
        /\ (arcResult = "TOP" => arcCur.e5 < arcCur.e50)
        /\ (arcResult = "BOTTOM" => arcCur.e5 > arcCur.e50)

(***************************************************************************)
(* C18: checkArcPattern reports nothing when the middle entry of the last  *)
(* five of ema5History equals any of the other four.                       *)
(***************************************************************************)
C18_NoArcOnTie ==
    (arcOp = "check" /\ arcResult # "null") =>
        /\ Len(ema5History) >= 5
        /\ LET w == LastFive(ema5History)
           IN w[3] \notin {w[1], w[2], w[4], w[5]}

C18_Witness ==
    /\ arcOp = "check" /\ arcResult = "null"
    /\ Len(ema5History) >= 5 /\ Len(ema50History) >= 5
    /\ LET w == LastFive(ema5History)
           w50 == LastFive(ema50History)
       IN /\ w[3] = w[2] /\ w[3] > w[1] /\ w[3] > w[4] /\ w[3] > w[5]
          /\ Abs(w[3] - w50[3]) >= minEmaDiff
    /\ arcCur.e5 > arcCur.e50

(***************************************************************************)
(* C19: when the last five closed-candle updates have EMA5 values that     *)
(* rise strictly to the third and fall strictly after it, the third is at  *)
(* least minEmaDiff from its EMA50, and a tick that repeats the EMA5 of    *)
(* the last update has its EMA5 below its EMA50, checkArcPattern reports   *)
(* a top for that tick; mirrored, it reports a bottom.                     *)
(***************************************************************************)
C19_FiveUpdatesWindow ==
    (/\ arcOp = "check" /\ Len(arcUpdates) = 5
     /\ arcCur.e5 = arcUpdates[5].e5
     /\ Abs(arcUpdates[3].e5 - arcUpdates[3].e50) >= minEmaDiff)
    => /\ (/\ arcUpdates[1].e5 < arcUpdates[2].e5
           /\ arcUpdates[2].e5 < arcUpdates[3].e5
           /\ arcUpdates[3].e5 > arcUpdates[4].e5
           /\ arcUpdates[4].e5 > arcUpdates[5].e5
           /\ arcCur.e5 < arcCur.e50) => arcResult = "TOP"
       /\ (/\ arcUpdates[1].e5 > arcUpdates[2].e5
           /\ arcUpdates[2].e5 > arcUpdates[3].e5
           /\ arcUpdates[3].e5 < arcUpdates[4].e5
           /\ arcUpdates[4].e5 < arcUpdates[5].e5
           /\ arcCur.e5 > arcCur.e50) => arcResult = "BOTTOM"

(***************************************************************************)
(* C20: checkArcPattern reports nothing when the middle entry of the last  *)
(* five of ema5History is less than minEmaDiff away from the middle entry  *)
(* of the last five of ema50History.                                       *)
(***************************************************************************)
C20_SmallDiffDiscarded ==
    (/\ arcOp = "check"
     /\ Len(ema5History) >= 5 /\ Len(ema50History) >= 5
     /\ Abs(LastFive(ema5History)[3] - LastFive(ema50History)[3]) < minEmaDiff)
    => arcResult = "null"

C20_Witness ==
    /\ arcOp = "check" /\ arcResult = "null"
    /\ Len(ema5History) >= 5 /\ Len(ema50History) >= 5
    /\ LET w == LastFive(ema5History)
           w50 == LastFive(ema50History)
       IN /\ w[3] > w[1] /\ w[3] > w[2] /\ w[3] > w[4] /\ w[3] > w[5]
          /\ Abs(w[3] - w50[3]) < minEmaDiff
    /\ arcCur.e5 > arcCur.e50

C22_CrossWhileFlatOpens ==
    [][\A t \in Slots :
         (/\ inv[t].pc = "cts_pos" /\ inv'[t].pc # "cts_pos"
          /\ inv[t].cross # "none" /\ posRead' = "null")
         => /\ inv'[t].pc = "open_acct"
            /\ inv'[t].dir = (IF inv[t].cross = "UP_CROSS" THEN "long" ELSE "short")
            /\ inv'[t].price = inv[t].price
            /\ crossPrice' = inv[t].price]_vars

(***************************************************************************)
(* C22, amended: the tick price is recorded as crossPrice on every cross   *)
(* read while flat, and the open (long on an upward cross, short on a      *)
(* downward one, at the tick price) is issued exactly when the cross is    *)
(* not the one lastCrossSignal already holds.                              *)
(***************************************************************************)
C22_NewCrossWhileFlatOpens ==
    [][\A t \in Slots :
         (/\ inv[t].pc = "cts_pos" /\ inv'[t].pc # "cts_pos"
          /\ inv[t].cross # "none" /\ posRead' = "null")
         => /\ crossPrice' = inv[t].price
            /\ IF inv[t].cross # lastCrossSignal
               THEN /\ inv'[t].pc = "open_acct"
                    /\ inv'[t].dir = (IF inv[t].cross = "UP_CROSS"
                                      THEN "long" ELSE "short")
                    /\ inv'[t].price = inv[t].price
               ELSE inv'[t].pc \notin {"open_acct", "open_order"}]_vars

C22_Witness ==
    \E t \in Slots :
      /\ inv[t].pc = "open_acct" /\ inv[t].caller = "cts_open"
      /\ inv[t].cross = "UP_CROSS" /\ inv[t].dir = "long"
      /\ posRead = "null" /\ crossPrice = inv[t].price
      /\ previousEma5 < previousEma50 /\ inv[t].ema5 > inv[t].ema50

(***************************************************************************)
(* C23: an invocation in handleArcPattern with pattern TOP that reads the  *)
(* position as long goes on to close it, sends a close of the long (SELL), *)
(* and issues its open of a short only out of a close whose order was      *)
(* filled; reading flat it issues the open of a short at once; reading     *)
(* short it finishes without an order.  BOTTOM is the mirror image.  A     *)
(* close that fails ends the invocation.                                   *)
(***************************************************************************)
C23_ArcCloseThenOpen ==
    [][\A t \in Slots :
         LET r == inv[t]
             held == IF r.pattern = "TOP" THEN "long" ELSE "short"
             target == IF r.pattern = "TOP" THEN "short" ELSE "long"
         IN /\ (r.pc = "arc_pos" /\ inv'[t].pc # "arc_pos" /\ posRead' = held)
               => inv'[t].pc = "close_pos" /\ inv'[t].caller = "arc_close"
            /\ (r.pc = "arc_pos" /\ inv'[t].pc # "arc_pos" /\ posRead' = "null")
               => inv'[t].pc = "open_acct" /\ inv'[t].dir = target
            /\ (r.pc = "arc_pos" /\ inv'[t].pc # "arc_pos" /\ posRead' = target)
               => inv'[t].pc = "idle"
            /\ (r.caller = "arc_close" /\ inv'[t].pc = "close_order")
               => inv'[t].dir = (IF held = "long" THEN "SELL" ELSE "BUY")
            /\ (r.caller = "arc_close" /\ inv'[t].pc = "open_acct")
               => r.pc = "close_signal" /\ inv'[t].dir = target
            /\ (r.caller = "arc_close" /\ r.pc = "close_order"
                  /\ inv'[t].pc \notin {"close_order", "close_signal"})
               => inv'[t].pc = "idle"]_vars

(***************************************************************************)
(* C24: a tick whose price is beyond both EMAs has the position read; when *)
(* the position read is held against the price (long with the price below  *)
(* both EMAs, short with the price above both) the invocation goes on to   *)
(* close it whatever its crossover signal, and once the close order of     *)
(* that tick is filled no position is left.                                *)
(***************************************************************************)
C24_AdversePositionClosed ==
    [][\A t \in Slots :
         LET r == inv[t]
             n == inv'[t]
             above == n.price > n.ema5 /\ n.price > n.ema50
             below == n.price < n.ema5 /\ n.price < n.ema50
         IN /\ (r.pc = "idle" /\ n.pc # "idle" /\ (above \/ below)
                  /\ previousEma5 # 0 /\ previousEma50 # 0)
               => n.pc = "cts_pos"
            /\ (r.pc = "cts_pos" /\ n.pc # "cts_pos"
                  /\ \/ posRead' = "long" /\ r.price < r.ema5 /\ r.price < r.ema50
                     \/ posRead' = "short" /\ r.price > r.ema5 /\ r.price > r.ema50)
               => n.pc = "close_pos" /\ n.caller = "cts_exit"
            /\ (r.caller = "cts_exit" /\ r.pc = "close_pos" /\ n.pc # "close_pos"
                  /\ posRead' \in {"long", "short"})
               => n.pc = "close_order" /\ n.qty = Abs(positionAmt)
            /\ (r.caller = "cts_exit" /\ r.pc = "close_order" /\ n.pc = "close_signal")
               => positionAmt' = 0]_vars

(***************************************************************************)
(* C25: a tick that finds a position held with its unrealized PnL% at or   *)
(* below -stopLoss or at or above takeProfit has the position read, and    *)
(* the read of such a tick that returns the position goes on to close it.  *)
(***************************************************************************)
C25_StopLossTakeProfit ==
    [][/\ (tickPrice' # 0 /\ PnlBeyond(positionAmt, entryPrice, tickPrice'))
          => \E t \in Slots : inv[t].pc = "idle" /\ inv'[t].pc = "cts_pos"
       /\ \A t \in Slots :
            (/\ inv[t].pc = "cts_pos" /\ inv'[t].pc # "cts_pos"
             /\ posRead' \in {"long", "short"}
             /\ PnlBeyond(positionAmt, entryPrice, inv[t].price))
            => inv'[t].pc = "close_pos"]_vars

C27_NoRetryAfterFailedOpen ==
    [][\A t \in PacedSlots :
         ~ (/\ inv[t].pc = "open_acct"
            /\ inv[t].caller = "cts_open"
            /\ t \in curEdge
            /\ inv'[t].pc = "open_order"
            /\ crossOpens >= 1
            /\ opensSinceClose = 0
            /\ positionAmt = 0)]_vars

(***************************************************************************)
(* C28: openPosition's quantity is availableBalance * positionSize *       *)
(* leverage / price floored to the instrument's quantityPrecision decimals;*)
(* below minQty the call throws and places no order, otherwise the order   *)
(* it places is for that quantity.                                         *)
(***************************************************************************)
C28_QuantityFlooredToPrecision ==
    [][(openCall.pc = "info" /\ openCall'.pc \in {"order", "threw"}
        /\ openCall'.minQty # 0 /\ openCall'.quantityPrecision >= 0)
       => LET c == openCall'
              step == Pow10(3 - c.quantityPrecision)
              exact == c.availableBalance * positionSize * leverage * 1000
              qty == ((exact \div (100 * c.price)) \div step) * step
          IN IF qty < c.minQty
             THEN c.pc = "threw" /\ c.order = 0
             ELSE c.pc = "order" /\ c.order = qty]_vars

(***************************************************************************)
(* C29: events are handled one at a time.  A step that begins handling an  *)
(* event (an invocation of handleKline leaves idle, or closingPrices, the  *)
(* EMA histories or the previous EMAs change) is taken only when no        *)
(* earlier invocation is still waiting for an exchange call.               *)
(***************************************************************************)
C29_OneEventAtATime ==
    [][((taVars' # taVars) \/ (\E t \in Slots : inv[t].pc = "idle" /\ inv'[t].pc # "idle"))
       => \A t \in Slots : inv[t].pc = "idle"]_vars

(***************************************************************************)
(* C30: the step in which connect() resumes with the fetched klines hands  *)
(* every kline but the last to onMessage as a closed kline event, oldest   *)
(* first, while no transport is open; and a kline event of the stream is   *)
(* handed to onMessage only when no connect() is still waiting for its     *)
(* klines.                                                                 *)
(***************************************************************************)
C30_BackfillBeforeLive ==
    [][/\ (fetching' < fetching /\ readyState' = "CONNECTING")
          => /\ delivered' = [i \in 1..(IF Len(klines') > 0 THEN Len(klines') - 1 ELSE 0)
                                |-> [e |-> "kline", t |-> klines'[i], x |-> TRUE]]
             /\ readyState \notin {"OPEN", "CLOSING"}
       /\ (\E i \in DOMAIN delivered' : delivered'[i].t = 0)
          => fetching = 0]_vars

C30_Witness ==
    /\ Len(klines) = 3
    /\ Len(delivered) = 2
    /\ delivered[1].t < delivered[2].t
    /\ readyState = "CONNECTING"

(***************************************************************************)
(* C31: a frame whose JSON.parse throws is skipped.  Nothing is handed to  *)
(* onMessage, the connection phase, the transport and the reconnect        *)
(* bookkeeping stay as they were and the process keeps running; a kline    *)
(* frame that follows it is handed to onMessage.                           *)
(***************************************************************************)
C31_MalformedFrameSkipped ==
    [][/\ frame' = "malformed"
          => /\ delivered' = << >>
             /\ Phase' = Phase
             /\ UNCHANGED <<ws, readyState, isReconnecting, reconnectAttempts,
                            backoff, fetching, failed, proc>>
       /\ (frame = "malformed" /\ frame' = "kline") => Len(delivered') = 1]_vars

C31_Witness ==
    /\ frame = "malformed"
    /\ readyState = "OPEN"
    /\ proc = "running"

(***************************************************************************)
(* C32: a check of the connection monitor that finds the transport open    *)
(* and the last message older than the idle threshold terminates the       *)
(* transport; the transport's close then puts the manager in Reconnecting  *)
(* (as long as nobody calls close()).                                      *)
(***************************************************************************)
C32_IdleWatchdogCloses ==
    /\ [][(fired' = "watchdog" /\ readyState = "OPEN" /\ messageAgeOver)
            => readyState' = "CLOSING"]_vars
    /\ (fired = "watchdog" /\ readyState = "CLOSING")
          ~> (Phase = "Reconnecting" \/ closeCalled)

C32_Witness ==
    /\ fired = "watchdog" /\ readyState = "CLOSING" /\ messageAgeOver
    /\ ws = "ref" /\ pingInterval = "armed" /\ pongTimeout = "null"
    /\ ~closeCalled

(***************************************************************************)
(* C33: a failed POST of sendSignal after a filled order is swallowed.     *)
(* openPosition goes on to set allowAddOrder[direction] and returns (a     *)
(* crossover open is recorded in lastCrossSignal); closePosition goes on   *)
(* to reset allowAddOrder; the position is what the order made it.         *)
(***************************************************************************)
C33_SinkFailureSwallowed ==
    [][\A t \in PacedSlots :
         LET r == inv[t]
         IN /\ (r.pc = "open_signal" /\ inv'[t].pc # "open_signal" /\ sink' = "failed")
               => /\ allowAddOrder'[r.dir]
                  /\ positionAmt' = positionAmt
                  /\ (r.caller = "cts_open" => lastCrossSignal' = r.cross)
            /\ (r.pc = "close_signal" /\ inv'[t].pc # "close_signal" /\ sink' = "failed")
               => /\ allowAddOrder' = [long |-> FALSE, short |-> FALSE]
                  /\ positionAmt' = positionAmt]_vars

C33_Witness ==
    /\ sink = "failed"
    /\ positionAmt # 0
    /\ lastCrossSignal # "null"
    /\ allowAddOrder["long"] \/ allowAddOrder["short"]

(***************************************************************************)
(* C34: the order closePosition places is reduce-only, on the side         *)
(* opposite to the reported position (SELL for a long, BUY for a short),   *)
(* for the reported quantity floored to the instrument's quantityPrecision *)
(* decimals.                                                               *)
(***************************************************************************)
C34_CloseOrderShape ==
    [][(openCall.pc = "held" /\ openCall'.pc = "order"
        /\ openCall'.quantityPrecision >= 0)
       => LET c == openCall'
              step == Pow10(3 - c.quantityPrecision)
          IN /\ c.reduceOnly
             /\ c.side = (IF c.positionAmt > 0 THEN "SELL" ELSE "BUY")
             /\ c.order = (Abs(c.positionAmt) \div step) * step]_vars

(***************************************************************************)
(* C35: once close() has been called, no step schedules a reconnect (no    *)
(* backoff delay is started) and no step creates a transport.              *)
(***************************************************************************)
C35_NoReconnectAfterClose ==
    [][closeCalled
       => /\ backoff' <= backoff
          /\ ~(readyState # "CONNECTING" /\ readyState' = "CONNECTING")]_vars

(***************************************************************************)
(* C36: no candle has its close added to closingPrices more than once,     *)
(* whether by initializeHistoricalData, by the backfill of connect() or by *)
(* the backfill of a reconnect.                                            *)
(***************************************************************************)
C36_CandleCommittedOnce == \A c \in CandleIds : committed[c] <= 1

(***************************************************************************)
(* C37: a handleKline invocation starts to act on an arc pattern (goes on  *)
(* from the guards of handleArcPattern to its exchange calls) only for a   *)
(* pattern that is not lastArcPattern and that no other invocation, its    *)
(* calls still pending, is acting on.                                      *)
(***************************************************************************)
C37_ArcActedOnce ==
    [][\A t \in Slots :
         (inv[t].pattern = "null" /\ inv'[t].pattern # "null")
         => /\ inv'[t].pattern # lastArcPattern
            /\ \A u \in Slots \ {t} : inv[u].pattern # inv'[t].pattern]_vars

(***************************************************************************)
(* C38: at any time at most one idle-monitor interval of the manager is    *)
(* running (the ping interval and the pong timeout are one handle each,    *)
(* cleared by cleanup before setupHeartbeat arms a new one).               *)
(***************************************************************************)
C38_OneTimerOfEachKind == watchdogs <= 1

(***************************************************************************)
(* C39: at most one reconnect is in progress: at most one backoff wait or  *)
(* connect() is pending; while a reconnect is marked as running no event   *)
(* (error, close, failed fetch) increments the attempt counter or starts   *)
(* another wait; a step increments the counter by one at most, and only    *)
(* with the wait it starts; a transport is created only when the one       *)
(* before it has closed.                                                   *)
(***************************************************************************)
C39_OneReconnectAtATime ==
    [][/\ backoff' + fetching' <= 1
       /\ isReconnecting => (reconnectAttempts' <= reconnectAttempts
                             /\ backoff' <= backoff)
       /\ reconnectAttempts' > reconnectAttempts
             => (reconnectAttempts' = reconnectAttempts + 1
                 /\ backoff' = backoff + 1)
       /\ (fetching' < fetching /\ pingInterval' = "armed")
             => readyState \notin {"CONNECTING", "OPEN", "CLOSING"}]_vars

C39_Witness ==
    /\ Running /\ isReconnecting /\ reconnectAttempts = 1
    /\ backoff = 0 /\ fetching = 0
    /\ ws = "ref" /\ readyState = "CLOSED"

====
